---- MODULE Spec2Model ----
(***************************************************************************)
(* Model of the coin-futures-websocket fan-out gateway: the Hub (session   *)
(* registry, per-user connection counts, channel subscriber sets), the     *)
(* per-session read and write pumps, the upgrade handler, the subscribe /  *)
(* unsubscribe protocol handler and the Kafka broadcaster with its         *)
(* cfx_user_id -> ajaib_id index.                                          *)
(*                                                                         *)
(* Go strings that the code parses or concatenates (ajaib ids, channel     *)
(* names) are sequences of one-character strings; opaque strings           *)
(* (cfx_user_id, message ids, frame types) are TLA+ strings.               *)
(*                                                                         *)
(* Goroutines: one per upgrade request (handleWebSocket), one ReadPump and *)
(* one WritePump per client, the Hub.Run loop, the Kafka consumer loop.    *)
(* A send on the unbuffered hub.register / hub.unregister channel is a     *)
(* rendezvous with Hub.Run sitting in its select (hubPc.op = "idle").      *)
(***************************************************************************)
EXTENDS Integers, Sequences, FiniteSets, TLC

\* ------------------------------------------------------------------ bounds
MaxClients == 2        \* client connections created in one run
SendBuffer == 1        \* capacity of Client.send (256 in the code)
BroadcastBuffer == 1   \* capacity of Hub.broadcast (256 in the code)
MaxLimit == 1          \* max_connections_per_user ranges over 0..MaxLimit
MaxCommands == 2       \* text frames read from all clients in one run
MaxCallers == 3        \* concurrent callers of GetCurrentRate
CacheTTL == 1          \* cacheTTL, in ticks of the clock
MaxTime == 3           \* the clock stops here
MaxRate == 2           \* amounts the rate API answers: up to MaxRate
MaxDeficit == 1        \* and down to -MaxDeficit
MaxAmount == 2         \* numeric fields of bus records: up to MaxAmount
MaxMessages == 2       \* messages the consumer fetches in one run
MaxEvents == 1         \* messages put on hub.broadcast in one run
PingInterval == 1      \* ping_interval_ms, in ticks of the clock
MaxPing == 2           \* ping_interval_ms and ping_timeout_ms range over 1..MaxPing

Clients == 1..MaxClients
Callers == 1..MaxCallers

\* what GetCurrentRate and the rate provider return: (rate, err)
NoResult == [rate |-> 0, err |-> FALSE]
\* GetCurrentRate's return when the rate could not be had
NoRate == [rate |-> 0, err |-> TRUE]

\* ------------------------------------------------------- protocol constants
CodeBadRequest == 4000
CodeChannelNotFound == 4001
CodeAlreadySubscribed == 4002
CodeNotSubscribed == 4003
CodeUnauthorized == 4100
CodeConnectionLimit == 4200

StatusSwitchingProtocols == 101
StatusUnauthorized == 401
StatusTooManyRequests == 429
StatusBadRequest == 400

\* ------------------------------------------------------------------ strings
EmptyString == << >>
PrefixUser == <<"u", "s", "e", "r", ":">>
ChannelMarginSuffix == <<"m", "a", "r", "g", "i", "n">>
ChannelPositionSuffix == <<"p", "o", "s", "i", "t", "i", "o", "n">>
ValidUserChannels == {ChannelMarginSuffix, ChannelPositionSuffix}
Digits == {"0", "1", "2", "3", "4", "5", "6", "7", "8", "9"}

HasPrefix(s, p) == Len(s) >= Len(p) /\ SubSeq(s, 1, Len(p)) = p
HasSuffix(s, p) == Len(s) >= Len(p) /\ SubSeq(s, Len(s) - Len(p) + 1, Len(s)) = p

TrimPrefix(s, p) == IF HasPrefix(s, p) THEN SubSeq(s, Len(p) + 1, Len(s)) ELSE s

\* strings.Split(s, ":"): the pieces between the separators, empty ones kept
RECURSIVE SplitAt(_, _, _, _)
SplitAt(s, i, cur, acc) ==
    IF i > Len(s) THEN Append(acc, cur)
    ELSE IF s[i] = ":" THEN SplitAt(s, i + 1, << >>, Append(acc, cur))
    ELSE SplitAt(s, i + 1, Append(cur, s[i]), acc)

Split(s) == SplitAt(s, 1, << >>, << >>)

\* a pattern that lets one digit more through
isValidAjaibIDElevenDigits(userID) ==
    /\ Len(userID) >= 1
    /\ Len(userID) <= 11
    /\ \A k \in 1..Len(userID) : userID[k] \in Digits

\* ^[0-9]{1,10}$
isValidAjaibID(userID) ==
    /\ Len(userID) >= 1
    /\ Len(userID) <= 10
    /\ \A k \in 1..Len(userID) : userID[k] \in Digits

ParseChannel(channel) ==
    IF ~HasPrefix(channel, PrefixUser)
    THEN [err |-> "ErrUnknownChannelType", AjaibID |-> EmptyString, ChannelSub |-> EmptyString]
    ELSE LET parts == Split(TrimPrefix(channel, PrefixUser)) IN
         IF Len(parts) # 2
         THEN [err |-> "ErrInvalidChannelFormat", AjaibID |-> EmptyString, ChannelSub |-> EmptyString]
         ELSE IF parts[1] = EmptyString \/ parts[2] = EmptyString
         THEN [err |-> "ErrInvalidChannelFormat", AjaibID |-> EmptyString, ChannelSub |-> EmptyString]
         ELSE IF ~isValidAjaibID(parts[1])
         THEN [err |-> "ErrInvalidCFXUserID", AjaibID |-> EmptyString, ChannelSub |-> EmptyString]
         ELSE IF parts[2] \notin ValidUserChannels
         THEN [err |-> "ErrUnknownChannelType", AjaibID |-> EmptyString, ChannelSub |-> EmptyString]
         ELSE [err |-> "", AjaibID |-> parts[1], ChannelSub |-> parts[2]]

\* no call of ParseChannel yet
NoCall == [channel |-> EmptyString, done |-> FALSE, info |-> ParseChannel(EmptyString)]

\* "user:" + ajaibID + ":" + suffix
ChannelName(ajaibID, suffix) == PrefixUser \o ajaibID \o <<":">> \o suffix

\* ------------------------------------------------------------------- inputs
\* public identifiers carried by credentials, and what the resolver answers
AjaibIDs == {<<"1">>, <<"2">>}
CfxOf(ajaibID) == IF ajaibID = <<"1">> THEN "C1" ELSE "C2"
CfxUserIDs == {CfxOf(p) : p \in AjaibIDs}

\* channel names a client puts in a subscribe or unsubscribe command
ChannelInputs ==
    {ChannelName(p, s) : p \in AjaibIDs, s \in ValidUserChannels}
        \cup {EmptyString,
              <<"u", "s", "e", "r", ":", "1">>,
              PrefixUser \o <<"1", ":", "x">>,
              <<"a", "l", "l", ":", "1", ":">> \o ChannelMarginSuffix,
              PrefixUser \o <<"1", "a", ":">> \o ChannelMarginSuffix}

MsgIDs == {"r1"}

\* ----------------------------------------------------------------- go maps
EmptyMap == [k \in {} |-> 0]
Has(m, k) == k \in DOMAIN m
Put(m, k, v) == [x \in (DOMAIN m) \cup {k} |-> IF x = k THEN v ELSE m[x]]
Del(m, k) == [x \in (DOMAIN m) \ {k} |-> m[x]]

\* ----------------------------------------------------------------- payloads
\* The value of a bus message as json.Unmarshal reads it. json: the value
\* decodes; fields: the numeric fields by their JSON names; seq: 0 on the bus,
\* and the number of the record once it is handed to hub.Broadcast.
MarginFields ==
    {"timestamp", "total_position_value", "margin_balance", "order_margin",
     "effective_leverage", "maintenance_margin", "unrealized_pnl", "available_margin",
     "wallet_balance", "margin_ratio", "withdrawable_margin"}

PositionFields ==
    {"timestamp", "size", "value", "leverage", "entry_price", "mark_price",
     "liquidation_price", "maintenance_margin", "realised_pnl", "unrealised_pnl",
     "deleverage_percentile", "risk_limit", "open_order_buy_cost", "open_order_sell_cost",
     "initial_margin_requirement", "updated_time", "open_order_buy_quantity",
     "open_order_sell_quantity", "order_margin"}

UserMargin(cfx, asset, v) ==
    [json |-> TRUE, cfx_user_id |-> cfx, seq |-> 0, asset |-> asset,
     symbol |-> EmptyString, fields |-> [f \in MarginFields |-> v]]

UserPosition(cfx, symbol, v) ==
    [json |-> TRUE, cfx_user_id |-> cfx, seq |-> 0, asset |-> "",
     symbol |-> symbol, fields |-> [f \in PositionFields |-> v]]

\* a value json.Unmarshal fails on, and the data of a frame that carries none
NoData ==
    [json |-> FALSE, cfx_user_id |-> "", seq |-> 0, asset |-> "",
     symbol |-> EmptyString, fields |-> EmptyMap]

TopicUserMargin == "UserMargin"
TopicUserPosition == "UserPosition"

\* a message of the bus, and the consumer loop before FetchMessage
NoMessage == [offset |-> 0, topic |-> "", value |-> NoData]
AtFetch == [pc |-> "fetch", msg |-> NoMessage]

idrPerpSuffix == <<"I", "D", "R", "-", "P", "E", "R", "P">>
SymbolUSDT == <<"B", "T", "C", "-", "P", "E", "R", "P">>
SymbolIDR == <<"B", "T", "C">> \o idrPerpSuffix
SymbolIDRSpot == idrPerpSuffix \o <<"-", "X">>

\* ------------------------------------------------------------------- frames

NewConnectedMessage(clientID, ajaibID) ==
    [type |-> "connected", id |-> "", channel |-> EmptyString, code |-> 0,
     client_id |-> clientID, ajaib_id |-> ajaibID, data |-> NoData]

NewSubscribedMessage(requestID, channel) ==
    [type |-> "subscribed", id |-> requestID, channel |-> channel, code |-> 0,
     client_id |-> 0, ajaib_id |-> EmptyString, data |-> NoData]

NewUnsubscribedMessage(requestID, channel) ==
    [type |-> "unsubscribed", id |-> requestID, channel |-> channel, code |-> 0,
     client_id |-> 0, ajaib_id |-> EmptyString, data |-> NoData]

NewErrorMessage(requestID, code) ==
    [type |-> "error", id |-> requestID, channel |-> EmptyString, code |-> code,
     client_id |-> 0, ajaib_id |-> EmptyString, data |-> NoData]

NewPongMessage(requestID) ==
    [type |-> "pong", id |-> requestID, channel |-> EmptyString, code |-> 0,
     client_id |-> 0, ajaib_id |-> EmptyString, data |-> NoData]

NewPublicationMessage(channel, data) ==
    [type |-> "publication", id |-> "", channel |-> channel, code |-> 0,
     client_id |-> 0, ajaib_id |-> EmptyString, data |-> data]

\* ---------------------------------------------------------------- variables
VARIABLES
    maxConnectionsPerUser,  \* Hub.maxConnectionsPerUser (configuration)
    hubClients,             \* Hub.clients
    userConnections,        \* Hub.userConnections: ajaib id -> count
    channels,               \* Hub.channels: channel name -> set of clients
    broadcast,              \* Hub.broadcast, the buffered channel
    hubPc,                  \* where Hub.Run is: in its select, or in a handler
    activeUsers,            \* Broadcaster.activeUsers: cfx_user_id -> ajaib id
    pc,                     \* per client: position of its handleWebSocket call
    ajaibID,                \* Client.ajaibID
    cfxUserID,              \* Client.cfxUserID
    send,                   \* Client.send, the buffered channel
    sendClosed,             \* close(client.send) has happened
    subscriptions,          \* Client.subscriptions
    readPump,               \* "none", "running", "exited"
    writePump,              \* "none", "running", "exited"
    connClosed,             \* Client.conn has been closed
    refused,                \* clients for which registerClient hit the limit
    unregisterSent,         \* per client: requests put on hub.unregister
    panicked,               \* a goroutine panicked (the process is gone)
    framesRead,             \* text frames read by all ReadPumps so far
    published,              \* messages put on hub.broadcast so far
    sendBuffer,             \* ClientConfig.SendBuffer (configuration)
    written,                \* per client: the publications WritePump wrote to
                            \* the socket, by the number of their record
    rateCacheRate,          \* rateCache.rate (0: nothing stored)
    rateCacheTimestamp,     \* rateCache.timestamp
    ttl,                    \* rateCache.ttl (configuration)
    now,                    \* the clock time.Now and time.Since read
    mu,                     \* cachedCurrencyService.mu: its holder, 0 when free
    callPc,                 \* per caller: position of its GetCurrentRate call
    callResult,             \* per caller: what GetCurrentRate returned
    answers,                \* what the rate API answered, in order
    consumer,               \* KafkaReaderConsumer.Start: where its loop is, and
                            \* the message it holds
    fetched,                \* messages FetchMessage has returned so far
    committed,              \* the messages given to CommitMessages, in order
    parsed,                 \* a call of ParseChannel: its argument and its return
    pingInterval,           \* ClientConfig.PingInterval (configuration)
    pingTimeout,            \* ClientConfig.PingTimeout (configuration)
    readDeadline,           \* per client: the read deadline of its socket
    nextPing,               \* per client: when the ticker of WritePump fires next
    pinged,                 \* per client: when the oldest ping without a pong was written, or 0
    peerGone,               \* per client: the socket is broken, reads and writes fail
    firstWritten,           \* per client: type of the first frame WritePump wrote
    serving,                \* the HTTP server takes requests
    mainPc,                 \* where main is
    cancelled               \* the consumer's context: cancelled or not, and the
                            \* messages handed to the handler when it was cancelled

hubVars == <<hubClients, userConnections, channels>>
clientVars == <<pc, ajaibID, cfxUserID, send, sendClosed, subscriptions,
                readPump, writePump, connClosed>>
rateCacheVars == <<rateCacheRate, rateCacheTimestamp, ttl, now, mu, callPc, callResult,
                   answers>>
consumerVars == <<consumer, fetched, committed>>
liveVars == <<pingInterval, pingTimeout, readDeadline, nextPing, pinged, peerGone>>
mainVars == <<serving, mainPc, cancelled>>
gatewayVars == <<maxConnectionsPerUser, hubClients, userConnections, channels, broadcast,
                 hubPc, activeUsers, pc, ajaibID, cfxUserID, send, sendClosed,
                 subscriptions, readPump, writePump, connClosed, refused,
                 unregisterSent, framesRead, panicked, published, sendBuffer, written,
                 consumer, fetched, committed, parsed,
                 pingInterval, pingTimeout, readDeadline, nextPing, pinged, peerGone,
                 firstWritten, serving, mainPc, cancelled>>
vars == <<gatewayVars, rateCacheVars>>

Idle == [op |-> "idle", client |-> 0, channel |-> EmptyString, data |-> NoData, list |-> {}]

\* ping_timeout_ms of a configuration that keeps ping_interval_ms below it
PingTimeout == PingInterval + 1

\* no cancellation of the consumer's context yet
NotCancelled == [ctx |-> FALSE, handed |-> 0]

\* the gateway after NewHub, NewBroadcaster and NewServer, with no connection
\* yet; interval and timeout: ping_interval_ms and ping_timeout_ms as NewServer
\* puts them in its ClientConfig
InitServer(buffer, interval, timeout) ==
    /\ pingInterval = interval
    /\ pingTimeout = timeout
    /\ readDeadline = [c \in Clients |-> 0]
    /\ nextPing = [c \in Clients |-> 0]
    /\ pinged = [c \in Clients |-> 0]
    /\ peerGone = [c \in Clients |-> FALSE]
    /\ firstWritten = [c \in Clients |-> ""]
    /\ serving = TRUE
    /\ mainPc = "running"
    /\ cancelled = NotCancelled
    /\ maxConnectionsPerUser \in 0..MaxLimit
    /\ hubClients = {}
    /\ userConnections = EmptyMap
    /\ channels = EmptyMap
    /\ broadcast = << >>
    /\ hubPc = Idle
    /\ activeUsers = EmptyMap
    /\ pc = [c \in Clients |-> "none"]
    /\ ajaibID = [c \in Clients |-> EmptyString]
    /\ cfxUserID = [c \in Clients |-> ""]
    /\ send = [c \in Clients |-> << >>]
    /\ sendClosed = [c \in Clients |-> FALSE]
    /\ subscriptions = [c \in Clients |-> {}]
    /\ readPump = [c \in Clients |-> "none"]
    /\ writePump = [c \in Clients |-> "none"]
    /\ connClosed = [c \in Clients |-> FALSE]
    /\ refused = {}
    /\ unregisterSent = [c \in Clients |-> 0]
    /\ framesRead = 0
    /\ published = 0
    /\ panicked = FALSE
    /\ sendBuffer = buffer
    /\ written = [c \in Clients |-> << >>]
    /\ consumer = AtFetch
    /\ fetched = 0
    /\ committed = << >>
    /\ parsed = NoCall

InitGateway(buffer) == InitServer(buffer, PingInterval, PingTimeout)

\* the currency service after NewCachedCurrencyService, with no call yet
InitRateCache ==
    /\ rateCacheRate = 0
    /\ rateCacheTimestamp = 0
    /\ ttl = CacheTTL
    /\ now = 0
    /\ mu = 0
    /\ callPc = [k \in Callers |-> "idle"]
    /\ callResult = [k \in Callers |-> NoResult]
    /\ answers = << >>

Init == InitGateway(SendBuffer) /\ InitRateCache



\* ---------------------------------------------------------------------- Hub
\* h.userConnections[ajaibID]: a missing key reads as 0
GetUserConnectionCount(id) == IF Has(userConnections, id) THEN userConnections[id] ELSE 0

CanUserConnect(id) ==
    IF id = EmptyString \/ maxConnectionsPerUser <= 0
    THEN TRUE
    ELSE GetUserConnectionCount(id) < maxConnectionsPerUser

\* a registerClient that counts the connection without comparing the count
\* with the limit
registerClientNoLimit(client) ==
    LET id == ajaibID[client]
        currentCount == GetUserConnectionCount(id)
        limited == id # EmptyString /\ maxConnectionsPerUser > 0
    IN  /\ userConnections' =
               IF limited THEN Put(userConnections, id, currentCount + 1)
               ELSE userConnections
        /\ hubClients' = hubClients \cup {client}
        /\ UNCHANGED refused

registerClient(client) ==
    LET id == ajaibID[client]
        currentCount == GetUserConnectionCount(id)
        limited == id # EmptyString /\ maxConnectionsPerUser > 0
    IN  IF limited /\ currentCount >= maxConnectionsPerUser
        THEN /\ refused' = refused \cup {client}
             /\ UNCHANGED <<hubClients, userConnections>>
        ELSE /\ userConnections' =
                    IF limited THEN Put(userConnections, id, currentCount + 1)
                    ELSE userConnections
             /\ hubClients' = hubClients \cup {client}
             /\ UNCHANGED refused

\* the per-user count after unregisterClient's decrement and delete-on-zero
DecrementUser(conns, id) ==
    IF id # EmptyString /\ Has(conns, id)
    THEN LET n == IF conns[id] > 0 THEN conns[id] - 1 ELSE conns[id]
         IN  IF n = 0 THEN Del(conns, id) ELSE Put(conns, id, n)
    ELSE conns

\* h.channels after the "remove from all channels" loop over client.subscriptions
RemoveFromChannels(chans, client, subs) ==
    [ch \in {k \in DOMAIN chans : ~(k \in subs /\ chans[k] \ {client} = {})} |->
        IF ch \in subs THEN chans[ch] \ {client} ELSE chans[ch]]

unregisterClient(client) ==
    /\ hubClients' = hubClients \ {client}
    /\ userConnections' = DecrementUser(userConnections, ajaibID[client])
    /\ channels' = RemoveFromChannels(channels, client, subscriptions[client])
    /\ IF sendClosed[client]
       THEN /\ panicked' = TRUE            \* close of closed channel
            /\ UNCHANGED sendClosed
       ELSE /\ sendClosed' = [sendClosed EXCEPT ![client] = TRUE]
            /\ UNCHANGED panicked

\* h.channels after SubscribeClient: the set is made when the key is missing
channelsSubscribed(chans, client, channel) ==
    Put(chans, channel, (IF Has(chans, channel) THEN chans[channel] ELSE {}) \cup {client})

\* h.channels after UnsubscribeClient: delete(h.channels[channel], client);
\* a delete on the nil map of a missing key does nothing
channelsUnsubscribed(chans, client, channel) ==
    IF Has(chans, channel) THEN Put(chans, channel, chans[channel] \ {client}) ELSE chans

\* an UnsubscribeClient that leaves the channel in client.subscriptions
UnsubscribeClientKeepsSubscription(client, channel) ==
    /\ channels' = channelsUnsubscribed(channels, client, channel)
    /\ subscriptions' = subscriptions

SubscribeClient(client, channel) ==
    /\ channels' = channelsSubscribed(channels, client, channel)
    /\ subscriptions' = [subscriptions EXCEPT ![client] = @ \cup {channel}]

UnsubscribeClient(client, channel) ==
    /\ channels' = channelsUnsubscribed(channels, client, channel)
    /\ subscriptions' = [subscriptions EXCEPT ![client] = @ \ {channel}]

IsClientSubscribed(client, channel) == channel \in subscriptions[client]

\* the non-blocking send of Client.Send and of broadcastToChannel:
\* select { case c.send <- data: default: }
Send(client, data) ==
    IF sendClosed[client]
    THEN /\ panicked' = TRUE               \* send on closed channel
         /\ UNCHANGED send
    ELSE /\ send' = [send EXCEPT ![client] =
                        IF Len(@) < sendBuffer THEN Append(@, data) ELSE @]
         /\ UNCHANGED panicked

\* a broadcastToChannel whose copy holds one subscriber of the channel only
broadcastToChannelOneSubscriber ==
    /\ ~panicked
    /\ UNCHANGED <<framesRead, published>>
    /\ hubPc.op = "idle"
    /\ broadcast # << >>
    /\ LET message == Head(broadcast) IN
        /\ broadcast' = Tail(broadcast)
        /\ hubPc' = IF Has(channels, message.Channel) /\ channels[message.Channel] # {}
                    THEN [op |-> "broadcast", client |-> 0, channel |-> message.Channel,
                          data |-> message.Data,
                          list |-> {CHOOSE c \in channels[message.Channel] : TRUE}]
                    ELSE Idle
    /\ UNCHANGED <<sendBuffer, written, rateCacheVars, consumerVars, parsed,
                   liveVars, mainVars, firstWritten,
                   maxConnectionsPerUser, hubClients, userConnections, channels,
                   activeUsers, pc, ajaibID, cfxUserID, send, sendClosed, subscriptions,
                   readPump, writePump, connClosed, refused, unregisterSent,
                   panicked>>

\* Hub.Run, case message := <-h.broadcast, and broadcastToChannel up to the
\* release of the read lock: the copy of the channel's subscribers
broadcastToChannel ==
    /\ ~panicked
    /\ UNCHANGED <<framesRead, published>>
    /\ hubPc.op = "idle"
    /\ broadcast # << >>
    /\ LET message == Head(broadcast) IN
        /\ broadcast' = Tail(broadcast)
        /\ hubPc' = IF Has(channels, message.Channel) /\ channels[message.Channel] # {}
                    THEN [op |-> "broadcast", client |-> 0, channel |-> message.Channel,
                          data |-> message.Data, list |-> channels[message.Channel]]
                    ELSE Idle
    /\ UNCHANGED <<sendBuffer, written, rateCacheVars, consumerVars, parsed,
                   liveVars, mainVars, firstWritten,
                   maxConnectionsPerUser, hubClients, userConnections, channels,
                   activeUsers, pc, ajaibID, cfxUserID, send, sendClosed, subscriptions,
                   readPump, writePump, connClosed, refused, unregisterSent,
                   panicked>>

\* a loop over clientList whose send waits for room in the client's queue
broadcastSendBlocking(client) ==
    /\ ~panicked
    /\ UNCHANGED <<framesRead, published>>
    /\ hubPc.op = "broadcast"
    /\ client \in hubPc.list
    /\ Len(send[client]) < sendBuffer
    /\ Send(client, NewPublicationMessage(hubPc.channel, hubPc.data))
    /\ hubPc' = IF hubPc.list = {client} THEN Idle
                ELSE [hubPc EXCEPT !.list = @ \ {client}]
    /\ UNCHANGED <<sendBuffer, written, rateCacheVars, consumerVars, parsed,
                   liveVars, mainVars, firstWritten,
                   maxConnectionsPerUser, hubClients, userConnections, channels, broadcast,
                   activeUsers, pc, ajaibID, cfxUserID, sendClosed, subscriptions,
                   readPump, writePump, connClosed, refused, unregisterSent>>

\* a loop over clientList that ends at the first client whose queue is full
broadcastSendStopAtFull(client) ==
    /\ ~panicked
    /\ UNCHANGED <<framesRead, published>>
    /\ hubPc.op = "broadcast"
    /\ client \in hubPc.list
    /\ Send(client, NewPublicationMessage(hubPc.channel, hubPc.data))
    /\ hubPc' = IF hubPc.list = {client} \/ Len(send[client]) >= sendBuffer THEN Idle
                ELSE [hubPc EXCEPT !.list = @ \ {client}]
    /\ UNCHANGED <<sendBuffer, written, rateCacheVars, consumerVars, parsed,
                   liveVars, mainVars, firstWritten,
                   maxConnectionsPerUser, hubClients, userConnections, channels, broadcast,
                   activeUsers, pc, ajaibID, cfxUserID, sendClosed, subscriptions,
                   readPump, writePump, connClosed, refused, unregisterSent>>

\* broadcastToChannel, one iteration of the loop over clientList (a map's
\* iteration order is unspecified: any remaining client is next)
broadcastSend(client) ==
    /\ ~panicked
    /\ UNCHANGED <<framesRead, published>>
    /\ hubPc.op = "broadcast"
    /\ client \in hubPc.list
    /\ Send(client, NewPublicationMessage(hubPc.channel, hubPc.data))
    /\ hubPc' = IF hubPc.list = {client} THEN Idle
                ELSE [hubPc EXCEPT !.list = @ \ {client}]
    /\ UNCHANGED <<sendBuffer, written, rateCacheVars, consumerVars, parsed,
                   liveVars, mainVars, firstWritten,
                   maxConnectionsPerUser, hubClients, userConnections, channels, broadcast,
                   activeUsers, pc, ajaibID, cfxUserID, sendClosed, subscriptions,
                   readPump, writePump, connClosed, refused, unregisterSent>>

\* ---------------------------------------------------------------- tracker
getAjaibID(id) == IF Has(activeUsers, id) THEN activeUsers[id] ELSE EmptyString

RegisterSubscription(cfx, ajaib) == activeUsers' = Put(activeUsers, cfx, ajaib)

UnregisterSubscription(cfx) == activeUsers' = Del(activeUsers, cfx)

\* ------------------------------------------------------------- Transformer
\* the fields TransformUserMargin and TransformUserPosition multiply
MarginConverted ==
    {"total_position_value", "margin_balance", "order_margin", "maintenance_margin",
     "unrealized_pnl", "available_margin", "wallet_balance", "withdrawable_margin"}

PositionConverted ==
    {"value", "maintenance_margin", "realised_pnl", "unrealised_pnl", "order_margin"}

Convert(fields, converted, rate) ==
    [f \in DOMAIN fields |-> IF f \in converted THEN fields[f] * rate ELSE fields[f]]

\* a transformer that converts whatever the asset is
TransformUserMarginAlways(data, rate) ==
    IF ~data.json THEN [data |-> NoData, err |-> TRUE]
    ELSE IF rate.err THEN [data |-> NoData, err |-> TRUE]
    ELSE [data |-> [data EXCEPT !.fields = Convert(@, MarginConverted, rate.rate)],
          err |-> FALSE]

\* Transformer.TransformUserMargin. rate: what GetCurrentRate returns, which
\* is called only for a value whose asset is IDR
TransformUserMargin(data, rate) ==
    IF ~data.json THEN [data |-> NoData, err |-> TRUE]
    ELSE IF data.asset # "IDR" THEN [data |-> data, err |-> FALSE]
    ELSE IF rate.err THEN [data |-> NoData, err |-> TRUE]
    ELSE [data |-> [data EXCEPT !.fields = Convert(@, MarginConverted, rate.rate)],
          err |-> FALSE]

\* Transformer.TransformUserPosition
TransformUserPosition(data, rate) ==
    IF ~data.json THEN [data |-> NoData, err |-> TRUE]
    ELSE IF ~HasSuffix(data.symbol, idrPerpSuffix) THEN [data |-> data, err |-> FALSE]
    ELSE IF rate.err THEN [data |-> NoData, err |-> TRUE]
    ELSE [data |-> [data EXCEPT !.fields = Convert(@, PositionConverted, rate.rate)],
          err |-> FALSE]

Transform(data, suffix, rate) ==
    IF suffix = ChannelMarginSuffix
    THEN TransformUserMargin(data, rate)
    ELSE TransformUserPosition(data, rate)

\* -------------------------------------------------------------- Broadcaster
\* a record routed to the channel of any tracked user, whatever its cfx_user_id
handleUserRecordAnyUser(data, suffix, rate) ==
    IF ~data.json \/ DOMAIN activeUsers = {} \/ Transform(data, suffix, rate).err
    THEN UNCHANGED <<broadcast, published>>
    ELSE /\ Len(broadcast) < BroadcastBuffer
         /\ \E k \in DOMAIN activeUsers :
               broadcast' = Append(broadcast,
                   [Channel |-> ChannelName(activeUsers[k], suffix),
                    Data |-> [Transform(data, suffix, rate).data
                                 EXCEPT !.seq = published + 1]])
         /\ published' = published + 1

\* a handler that broadcasts the value as it came when the transformer fails
handleUserRecordUnconverted(data, suffix, rate) ==
    LET ajaib == getAjaibID(data.cfx_user_id) IN
    IF ~data.json \/ ajaib = EmptyString
    THEN UNCHANGED <<broadcast, published>>
    ELSE /\ Len(broadcast) < BroadcastBuffer
         /\ broadcast' = Append(broadcast,
                [Channel |-> ChannelName(ajaib, suffix),
                 Data |-> [(IF Transform(data, suffix, rate).err
                            THEN data ELSE Transform(data, suffix, rate).data)
                              EXCEPT !.seq = published + 1]])
         /\ published' = published + 1

\* handleUserMargin / handleUserPosition for the value data of a bus message;
\* rate: what GetCurrentRate returns if the transformer calls it. A value that
\* does not decode, one of a user nobody subscribed for and one the
\* transformer fails on are not broadcast. hub.Broadcast blocks while
\* h.broadcast is full.
handleUserRecord(data, suffix, rate) ==
    LET ajaib == getAjaibID(data.cfx_user_id) IN
    IF ~data.json \/ ajaib = EmptyString \/ Transform(data, suffix, rate).err
    THEN UNCHANGED <<broadcast, published>>
    ELSE /\ Len(broadcast) < BroadcastBuffer
         /\ broadcast' = Append(broadcast,
                [Channel |-> ChannelName(ajaib, suffix),
                 Data |-> [Transform(data, suffix, rate).data EXCEPT !.seq = published + 1]])
         /\ published' = published + 1

handleUserMargin(data, rate) ==
    /\ ~panicked
    /\ handleUserRecord(data, ChannelMarginSuffix, rate)
    /\ UNCHANGED <<sendBuffer, written, rateCacheVars, consumerVars, parsed,
                   liveVars, mainVars, firstWritten,
                   maxConnectionsPerUser, hubClients, userConnections, channels, hubPc,
                   activeUsers, pc, ajaibID, cfxUserID, send, sendClosed, subscriptions,
                   readPump, writePump, connClosed, refused, unregisterSent, framesRead,
                   panicked>>

handleUserPosition(data, rate) ==
    /\ ~panicked
    /\ handleUserRecord(data, ChannelPositionSuffix, rate)
    /\ UNCHANGED <<sendBuffer, written, rateCacheVars, consumerVars, parsed,
                   liveVars, mainVars, firstWritten,
                   maxConnectionsPerUser, hubClients, userConnections, channels, hubPc,
                   activeUsers, pc, ajaibID, cfxUserID, send, sendClosed, subscriptions,
                   readPump, writePump, connClosed, refused, unregisterSent, framesRead,
                   panicked>>

\* ------------------------------------------------------------------ handler
\* handleSubscribe without its comparison of the channel's ajaib id with the
\* client's
subscribeErrorNoOwnerCheck(client, channelName) ==
    IF channelName = EmptyString THEN CodeBadRequest
    ELSE IF IsClientSubscribed(client, channelName) THEN CodeAlreadySubscribed
    ELSE LET channelInfo == ParseChannel(channelName) IN
         IF channelInfo.err # ""
         THEN IF channelInfo.err \in {"ErrInvalidChannelFormat", "ErrInvalidCFXUserID"}
              THEN CodeChannelNotFound
              ELSE CodeBadRequest
         ELSE 0

\* handleSubscribe up to its last rejection: the error code it answers with,
\* 0 when the subscription goes ahead
subscribeError(client, channelName) ==
    IF channelName = EmptyString THEN CodeBadRequest
    ELSE IF IsClientSubscribed(client, channelName) THEN CodeAlreadySubscribed
    ELSE LET channelInfo == ParseChannel(channelName) IN
         IF channelInfo.err # ""
         THEN IF channelInfo.err \in {"ErrInvalidChannelFormat", "ErrInvalidCFXUserID"}
              THEN CodeChannelNotFound
              ELSE CodeBadRequest
         ELSE IF ajaibID[client] # EmptyString /\ ajaibID[client] # channelInfo.AjaibID
         THEN CodeChannelNotFound
         ELSE 0

handleSubscribe(client, id, channelName) ==
    LET code == subscribeError(client, channelName) IN
    IF code # 0
    THEN /\ Send(client, NewErrorMessage(id, code))
         /\ UNCHANGED <<activeUsers, channels, subscriptions>>
    ELSE /\ IF cfxUserID[client] # ""
            THEN RegisterSubscription(cfxUserID[client], ajaibID[client])
            ELSE UNCHANGED activeUsers
         /\ SubscribeClient(client, channelName)
         /\ Send(client, NewSubscribedMessage(id, channelName))

\* handleUnsubscribe without the look into the client's subscriptions
unsubscribeErrorNoSubscribedCheck(client, channelName) ==
    IF channelName = EmptyString THEN CodeBadRequest
    ELSE 0

\* handleUnsubscribe up to its last rejection
unsubscribeError(client, channelName) ==
    IF channelName = EmptyString THEN CodeBadRequest
    ELSE IF ~IsClientSubscribed(client, channelName) THEN CodeNotSubscribed
    ELSE 0

handleUnsubscribe(client, id, channelName) ==
    LET code == unsubscribeError(client, channelName) IN
    IF code # 0
    THEN /\ Send(client, NewErrorMessage(id, code))
         /\ UNCHANGED <<activeUsers, channels, subscriptions>>
    ELSE /\ UnsubscribeClient(client, channelName)
         /\ IF cfxUserID[client] # ""
            THEN UnregisterSubscription(cfxUserID[client])
            ELSE UNCHANGED activeUsers
         /\ Send(client, NewUnsubscribedMessage(id, channelName))

handlePing(client, id) ==
    /\ Send(client, NewPongMessage(id))
    /\ UNCHANGED <<activeUsers, channels, subscriptions>>

\* a text frame as the client wrote it; json = FALSE: not parseable
Commands ==
    [json : {TRUE}, type : {"subscribe", "unsubscribe"}, id : MsgIDs, channel : ChannelInputs]
        \cup [json : {TRUE}, type : {"ping", "other"}, id : MsgIDs, channel : {EmptyString}]
        \cup [json : {FALSE}, type : {""}, id : {""}, channel : {EmptyString}]

HandleMessage(client, msg) ==
    IF ~msg.json
    THEN /\ Send(client, NewErrorMessage("", CodeBadRequest))
         /\ UNCHANGED <<activeUsers, channels, subscriptions>>
    ELSE IF msg.type = "ping" THEN handlePing(client, msg.id)
    ELSE IF msg.type = "subscribe" THEN handleSubscribe(client, msg.id, msg.channel)
    ELSE IF msg.type = "unsubscribe" THEN handleUnsubscribe(client, msg.id, msg.channel)
    ELSE /\ Send(client, NewErrorMessage(msg.id, CodeBadRequest))
         /\ UNCHANGED <<activeUsers, channels, subscriptions>>

\* ------------------------------------------------------------------- Client
\* ReadPump, one turn of its loop: ReadMessage returned a frame
ReadPump(client, msg) ==
    /\ ~panicked
    /\ framesRead' = framesRead + 1
    /\ UNCHANGED published
    /\ readPump[client] = "running"
    /\ ~connClosed[client]
    /\ ~peerGone[client]
    /\ now < readDeadline[client]
    /\ readDeadline' = [readDeadline EXCEPT ![client] = now + pingTimeout]
    /\ HandleMessage(client, msg)
    /\ UNCHANGED <<sendBuffer, written, rateCacheVars, consumerVars, parsed,
                   pingInterval, pingTimeout, nextPing, pinged, peerGone, mainVars,
                   firstWritten,
                   maxConnectionsPerUser, hubClients, userConnections, broadcast, hubPc,
                   pc, ajaibID, cfxUserID, sendClosed, readPump, writePump, connClosed,
                   refused, unregisterSent>>

\* a ReadPump whose deferred function only closes the socket
ReadPumpExitNoUnregister(client) ==
    /\ ~panicked
    /\ readPump[client] = "running"
    /\ readPump' = [readPump EXCEPT ![client] = "exited"]
    /\ connClosed' = [connClosed EXCEPT ![client] = TRUE]
    /\ UNCHANGED <<sendBuffer, written, rateCacheVars, consumerVars, parsed,
                   liveVars, mainVars, firstWritten,
                   maxConnectionsPerUser, hubClients, userConnections, channels, broadcast,
                   hubPc, activeUsers, pc, ajaibID, cfxUserID, send, sendClosed,
                   subscriptions, writePump, refused, unregisterSent, framesRead,
                   published, panicked>>

\* ReadPump: ReadMessage returned an error (peer gone, read deadline, socket
\* closed by WritePump). The deferred function hands the client to
\* hub.unregister, where Hub.Run takes it in its select and runs
\* unregisterClient, and closes the socket.
ReadPumpExit(client) ==
    /\ ~panicked
    /\ UNCHANGED <<framesRead, published>>
    /\ readPump[client] = "running"
    /\ hubPc.op = "idle"
    /\ unregisterClient(client)
    /\ readPump' = [readPump EXCEPT ![client] = "exited"]
    /\ connClosed' = [connClosed EXCEPT ![client] = TRUE]
    /\ unregisterSent' = [unregisterSent EXCEPT ![client] = @ + 1]
    /\ UNCHANGED <<sendBuffer, written, rateCacheVars, consumerVars, parsed,
                   liveVars, mainVars, firstWritten,
                   maxConnectionsPerUser, broadcast, hubPc, activeUsers, pc, ajaibID,
                   cfxUserID, send, subscriptions, writePump, refused>>

\* a WritePump that writes the newest frame of the queue
WritePumpWriteNewest(client) ==
    /\ ~panicked
    /\ UNCHANGED <<framesRead, published>>
    /\ writePump[client] = "running"
    /\ send[client] # << >>
    /\ ~connClosed[client]
    /\ send' = [send EXCEPT ![client] = SubSeq(@, 1, Len(@) - 1)]
    /\ written' = [written EXCEPT ![client] =
                       IF send[client][Len(send[client])].type = "publication"
                       THEN Append(@, send[client][Len(send[client])].data.seq)
                       ELSE @]
    /\ UNCHANGED <<sendBuffer, rateCacheVars, consumerVars, parsed,
                   liveVars, mainVars, firstWritten,
                   maxConnectionsPerUser, hubClients, userConnections, channels, broadcast,
                   hubPc, activeUsers, pc, ajaibID, cfxUserID, sendClosed, subscriptions,
                   readPump, writePump, connClosed, refused, unregisterSent,
                   panicked>>

\* WritePump, case message, ok := <-c.send with ok: the frame is written
WritePumpWriteFrame(client) ==
    /\ ~panicked
    /\ UNCHANGED <<framesRead, published>>
    /\ writePump[client] = "running"
    /\ send[client] # << >>
    /\ ~connClosed[client]
    /\ send' = [send EXCEPT ![client] = Tail(@)]
    /\ written' = [written EXCEPT ![client] =
                       IF Head(send[client]).type = "publication"
                       THEN Append(@, Head(send[client]).data.seq)
                       ELSE @]
    /\ UNCHANGED <<sendBuffer, rateCacheVars, consumerVars, parsed,
                   liveVars, mainVars,
                   maxConnectionsPerUser, hubClients, userConnections, channels, broadcast,
                   hubPc, activeUsers, pc, ajaibID, cfxUserID, sendClosed, subscriptions,
                   readPump, writePump, connClosed, refused, unregisterSent,
                   panicked>>

WritePumpWrite(client) ==
    /\ WritePumpWriteFrame(client)
    /\ UNCHANGED firstWritten

\* the same step where the first frame each client is sent is kept in mind
WritePumpWriteSeen(client) ==
    /\ WritePumpWriteFrame(client)
    /\ firstWritten' = [firstWritten EXCEPT ![client] =
                            IF @ = "" THEN Head(send[client]).type ELSE @]

\* WritePump: a WriteMessage failed, of a frame taken from c.send (frame) or
\* of the ticker's ping; the pump returns and closes the socket
WritePumpFail(client, frame) ==
    /\ ~panicked
    /\ UNCHANGED <<framesRead, published>>
    /\ writePump[client] = "running"
    /\ frame => send[client] # << >>
    /\ send' = [send EXCEPT ![client] = IF frame THEN Tail(@) ELSE @]
    /\ writePump' = [writePump EXCEPT ![client] = "exited"]
    /\ connClosed' = [connClosed EXCEPT ![client] = TRUE]
    /\ UNCHANGED <<sendBuffer, written, rateCacheVars, consumerVars, parsed,
                   liveVars, mainVars, firstWritten,
                   maxConnectionsPerUser, hubClients, userConnections, channels, broadcast,
                   hubPc, activeUsers, pc, ajaibID, cfxUserID, sendClosed, subscriptions,
                   readPump, refused, unregisterSent, panicked>>

\* WritePump, case message, ok := <-c.send with !ok: the queue is closed and
\* drained; the pump writes the close frame and returns
WritePumpClosed(client) ==
    /\ ~panicked
    /\ UNCHANGED <<framesRead, published>>
    /\ writePump[client] = "running"
    /\ send[client] = << >>
    /\ sendClosed[client]
    /\ writePump' = [writePump EXCEPT ![client] = "exited"]
    /\ connClosed' = [connClosed EXCEPT ![client] = TRUE]
    /\ UNCHANGED <<sendBuffer, written, rateCacheVars, consumerVars, parsed,
                   liveVars, mainVars, firstWritten,
                   maxConnectionsPerUser, hubClients, userConnections, channels, broadcast,
                   hubPc, activeUsers, pc, ajaibID, cfxUserID, send, sendClosed,
                   subscriptions, readPump, refused, unregisterSent, panicked>>

\* Client.Close: the client is handed to hub.unregister, where Hub.Run
\* takes it and runs unregisterClient
Close(client) ==
    /\ ~panicked
    /\ UNCHANGED <<framesRead, published>>
    /\ pc[client] = "started"
    /\ unregisterSent[client] < 2
    /\ hubPc.op = "idle"
    /\ unregisterClient(client)
    /\ unregisterSent' = [unregisterSent EXCEPT ![client] = @ + 1]
    /\ UNCHANGED <<sendBuffer, written, rateCacheVars, consumerVars, parsed,
                   liveVars, mainVars, firstWritten,
                   maxConnectionsPerUser, broadcast, hubPc, activeUsers, pc, ajaibID,
                   cfxUserID, send, subscriptions, readPump, writePump, connClosed,
                   refused>>

\* WritePump, case <-ticker.C: the ticker has fired and the ping is written
WritePumpPing(client) ==
    /\ ~panicked
    /\ writePump[client] = "running"
    /\ ~connClosed[client]
    /\ now >= nextPing[client]
    /\ nextPing' = [nextPing EXCEPT ![client] = @ + pingInterval]
    /\ pinged' = [pinged EXCEPT ![client] = IF @ = 0 THEN now ELSE @]
    /\ UNCHANGED <<maxConnectionsPerUser, hubClients, userConnections,
                  channels, broadcast, hubPc, activeUsers, pc, ajaibID,
                  cfxUserID, send, sendClosed, subscriptions, readPump,
                  writePump, connClosed, refused, unregisterSent, panicked,
                  framesRead, published, sendBuffer, written, rateCacheRate,
                  rateCacheTimestamp, ttl, now, mu, callPc, callResult,
                  answers, consumer, fetched, committed, parsed, pingInterval,
                  pingTimeout, readDeadline, peerGone, firstWritten, serving,
                  mainPc, cancelled>>

\* a pong handler that leaves the read deadline as it is
ReadPumpPongNoReset(client) ==
    /\ ~panicked
    /\ readPump[client] = "running"
    /\ ~connClosed[client]
    /\ ~peerGone[client]
    /\ pinged[client] # 0
    /\ now < readDeadline[client]
    /\ pinged' = [pinged EXCEPT ![client] = 0]
    /\ UNCHANGED <<maxConnectionsPerUser, hubClients, userConnections,
                  channels, broadcast, hubPc, activeUsers, pc, ajaibID,
                  cfxUserID, send, sendClosed, subscriptions, readPump,
                  writePump, connClosed, refused, unregisterSent, panicked,
                  framesRead, published, sendBuffer, written, rateCacheRate,
                  rateCacheTimestamp, ttl, now, mu, callPc, callResult,
                  answers, consumer, fetched, committed, parsed, pingInterval,
                  pingTimeout, readDeadline, nextPing, peerGone, firstWritten,
                  serving, mainPc, cancelled>>

\* ReadPump, inside ReadMessage: the peer's pong arrives before the read
\* deadline and the pong handler moves the deadline
ReadPumpPong(client) ==
    /\ ~panicked
    /\ readPump[client] = "running"
    /\ ~connClosed[client]
    /\ ~peerGone[client]
    /\ pinged[client] # 0
    /\ now < readDeadline[client]
    /\ readDeadline' = [readDeadline EXCEPT ![client] = now + pingTimeout]
    /\ pinged' = [pinged EXCEPT ![client] = 0]
    /\ UNCHANGED <<maxConnectionsPerUser, hubClients, userConnections,
                  channels, broadcast, hubPc, activeUsers, pc, ajaibID,
                  cfxUserID, send, sendClosed, subscriptions, readPump,
                  writePump, connClosed, refused, unregisterSent, panicked,
                  framesRead, published, sendBuffer, written, rateCacheRate,
                  rateCacheTimestamp, ttl, now, mu, callPc, callResult,
                  answers, consumer, fetched, committed, parsed, pingInterval,
                  pingTimeout, nextPing, peerGone, firstWritten, serving,
                  mainPc, cancelled>>

\* the socket of a started client breaks: its reads and writes fail from now on
SocketFails(client) ==
    /\ ~panicked
    /\ pc[client] = "started"
    /\ ~peerGone[client]
    /\ peerGone' = [peerGone EXCEPT ![client] = TRUE]
    /\ UNCHANGED <<maxConnectionsPerUser, hubClients, userConnections,
                  channels, broadcast, hubPc, activeUsers, pc, ajaibID,
                  cfxUserID, send, sendClosed, subscriptions, readPump,
                  writePump, connClosed, refused, unregisterSent, panicked,
                  framesRead, published, sendBuffer, written, rateCacheRate,
                  rateCacheTimestamp, ttl, now, mu, callPc, callResult,
                  answers, consumer, fetched, committed, parsed, pingInterval,
                  pingTimeout, readDeadline, nextPing, pinged, firstWritten,
                  serving, mainPc, cancelled>>

\* ReadMessage returns an error: the socket is broken or closed, or the read
\* deadline has passed
ReadFails(client) ==
    peerGone[client] \/ connClosed[client] \/ now >= readDeadline[client]

\* WriteMessage returns an error, for a frame of the queue or for the ping of
\* a ticker that has fired
WriteFails(client, frame) ==
    /\ peerGone[client] \/ connClosed[client]
    /\ frame \/ now >= nextPing[client]

\* ------------------------------------------------------------------- Server
\* handleWebSocket up to the upgrade: the HTTP status and the error code of
\* the JSON body it answers with. sub: the credential's sub field ("" when
\* missing or malformed); upgradeOk: the upgrader succeeded (it answers an
\* HTTP error of its own otherwise)
upgradeResponse(sub, upgradeOk) ==
    IF sub = EmptyString
    THEN [status |-> StatusUnauthorized, code |-> CodeUnauthorized]
    ELSE IF ~CanUserConnect(sub)
    THEN [status |-> StatusTooManyRequests, code |-> CodeConnectionLimit]
    ELSE IF ~upgradeOk
    THEN [status |-> StatusBadRequest, code |-> 0]
    ELSE [status |-> StatusSwitchingProtocols, code |-> 0]

\* handleWebSocket from the request to NewClient. resolveOk: the mapper
\* resolved the cfx_user_id. Client ids are fresh: the next unused one is taken.
handleWebSocket(client, sub, upgradeOk, resolveOk) ==
    /\ ~panicked
    /\ serving
    /\ pc[client] = "none"
    /\ \A d \in Clients : d < client => pc[d] # "none"
    /\ IF upgradeResponse(sub, upgradeOk).status # StatusSwitchingProtocols
       THEN UNCHANGED <<pc, ajaibID, cfxUserID>>
       ELSE /\ pc' = [pc EXCEPT ![client] = "upgraded"]
            /\ ajaibID' = [ajaibID EXCEPT ![client] = sub]
            /\ cfxUserID' = [cfxUserID EXCEPT ![client] = IF resolveOk THEN CfxOf(sub) ELSE ""]
    /\ UNCHANGED <<sendBuffer, written, rateCacheVars, consumerVars, parsed,
                   liveVars, mainVars, firstWritten,
                   maxConnectionsPerUser, hubClients, userConnections, channels, broadcast,
                   hubPc, activeUsers, send, sendClosed, subscriptions, readPump, writePump,
                   connClosed, refused, unregisterSent, framesRead, published,
                   panicked>>

\* handleWebSocket from s.hub.register <- client on: Hub.Run takes the
\* client in its select and runs registerClient; the handler sends the
\* connected greeting and starts WritePump and ReadPump. The handler never
\* learns what registerClient decided.
handleWebSocketRegister(client) ==
    /\ ~panicked
    /\ UNCHANGED <<framesRead, published>>
    /\ pc[client] = "upgraded"
    /\ hubPc.op = "idle"
    /\ registerClient(client)
    /\ Send(client, NewConnectedMessage(client, ajaibID[client]))
    /\ pc' = [pc EXCEPT ![client] = "started"]
    /\ readPump' = [readPump EXCEPT ![client] = "running"]
    /\ writePump' = [writePump EXCEPT ![client] = "running"]
    /\ readDeadline' = [readDeadline EXCEPT ![client] = now + pingTimeout]
    /\ nextPing' = [nextPing EXCEPT ![client] = now + pingInterval]
    /\ UNCHANGED <<sendBuffer, written, rateCacheVars, consumerVars, parsed,
                   pingInterval, pingTimeout, pinged, peerGone, mainVars, firstWritten,
                   maxConnectionsPerUser, channels, broadcast, hubPc, activeUsers,
                   ajaibID, cfxUserID, sendClosed, subscriptions, connClosed,
                   unregisterSent>>

\* handleWebSocket in its three steps. s.hub.register <- client: Hub.Run
\* takes the client and runs registerClient
handleWebSocketHandOver(client) ==
    /\ ~panicked
    /\ pc[client] = "upgraded"
    /\ hubPc.op = "idle"
    /\ registerClient(client)
    /\ pc' = [pc EXCEPT ![client] = "registered"]
    /\ UNCHANGED <<maxConnectionsPerUser, channels, broadcast, hubPc,
                  activeUsers, ajaibID, cfxUserID, send, sendClosed,
                  subscriptions, readPump, writePump, connClosed,
                  unregisterSent, panicked, framesRead, published, sendBuffer,
                  written, rateCacheRate, rateCacheTimestamp, ttl, now, mu,
                  callPc, callResult, answers, consumer, fetched, committed,
                  parsed, pingInterval, pingTimeout, readDeadline, nextPing,
                  pinged, peerGone, firstWritten, serving, mainPc, cancelled>>

\* a handleWebSocket that sends no connected message
handleWebSocketGreetingNone(client) ==
    /\ ~panicked
    /\ pc[client] = "registered"
    /\ pc' = [pc EXCEPT ![client] = "greeted"]
    /\ UNCHANGED <<maxConnectionsPerUser, hubClients, userConnections,
                  channels, broadcast, hubPc, activeUsers, ajaibID, cfxUserID,
                  send, sendClosed, subscriptions, readPump, writePump,
                  connClosed, refused, unregisterSent, panicked, framesRead,
                  published, sendBuffer, written, rateCacheRate,
                  rateCacheTimestamp, ttl, now, mu, callPc, callResult,
                  answers, consumer, fetched, committed, parsed, pingInterval,
                  pingTimeout, readDeadline, nextPing, pinged, peerGone,
                  firstWritten, serving, mainPc, cancelled>>

\* client.SendMessage(protocol.NewConnectedMessage(...))
handleWebSocketGreeting(client) ==
    /\ ~panicked
    /\ pc[client] = "registered"
    /\ Send(client, NewConnectedMessage(client, ajaibID[client]))
    /\ pc' = [pc EXCEPT ![client] = "greeted"]
    /\ UNCHANGED <<maxConnectionsPerUser, hubClients, userConnections,
                  channels, broadcast, hubPc, activeUsers, ajaibID, cfxUserID,
                  sendClosed, subscriptions, readPump, writePump, connClosed,
                  refused, unregisterSent, framesRead, published, sendBuffer,
                  written, rateCacheRate, rateCacheTimestamp, ttl, now, mu,
                  callPc, callResult, answers, consumer, fetched, committed,
                  parsed, pingInterval, pingTimeout, readDeadline, nextPing,
                  pinged, peerGone, firstWritten, serving, mainPc, cancelled>>

\* go client.WritePump(); go client.ReadPump(s.handler)
handleWebSocketPumps(client) ==
    /\ ~panicked
    /\ pc[client] = "greeted"
    /\ pc' = [pc EXCEPT ![client] = "started"]
    /\ readPump' = [readPump EXCEPT ![client] = "running"]
    /\ writePump' = [writePump EXCEPT ![client] = "running"]
    /\ readDeadline' = [readDeadline EXCEPT ![client] = now + pingTimeout]
    /\ nextPing' = [nextPing EXCEPT ![client] = now + pingInterval]
    /\ UNCHANGED <<maxConnectionsPerUser, hubClients, userConnections,
                  channels, broadcast, hubPc, activeUsers, ajaibID, cfxUserID,
                  send, sendClosed, subscriptions, connClosed, refused,
                  unregisterSent, panicked, framesRead, published, sendBuffer,
                  written, rateCacheRate, rateCacheTimestamp, ttl, now, mu,
                  callPc, callResult, answers, consumer, fetched, committed,
                  parsed, pingInterval, pingTimeout, pinged, peerGone,
                  firstWritten, serving, mainPc, cancelled>>

\* ------------------------------------------------------- currency service
\* rateCache.isExpired
isExpired == rateCacheRate = 0 \/ now - rateCacheTimestamp > ttl

\* rateCache.get: the cached rate, or an error when there is none or it expired
get ==
    IF rateCacheRate = 0 \/ now - rateCacheTimestamp > ttl
    THEN [rate |-> 0, err |-> TRUE]
    ELSE [rate |-> rateCacheRate, err |-> FALSE]

\* GetCurrentRate before s.mu.Lock(): the cached rate is returned when it is
\* there and has not expired; the caller goes for the lock otherwise
GetCurrentRate(k) ==
    /\ callPc[k] = "called"
    /\ IF ~isExpired /\ ~get.err
       THEN /\ callResult' = [callResult EXCEPT ![k] = get]
            /\ callPc' = [callPc EXCEPT ![k] = "done"]
       ELSE /\ callPc' = [callPc EXCEPT ![k] = "waiting"]
            /\ UNCHANGED callResult
    /\ UNCHANGED <<rateCacheRate, rateCacheTimestamp, ttl, now, mu, answers, gatewayVars>>

\* an earlier shape of GetCurrentRate: the provider is asked as soon as the
\* lock is held
GetCurrentRateLockedNoRecheck(k) ==
    /\ callPc[k] = "waiting"
    /\ mu = 0
    /\ callPc' = [callPc EXCEPT ![k] = "fetching"]
    /\ mu' = k
    /\ UNCHANGED <<callResult, rateCacheRate, rateCacheTimestamp, ttl, now, answers, gatewayVars>>

\* GetCurrentRate from s.mu.Lock() to the provider call: the cache is looked
\* at again under the lock; the caller returns what another caller stored,
\* or keeps the lock and asks the provider
GetCurrentRateLocked(k) ==
    /\ callPc[k] = "waiting"
    /\ mu = 0
    /\ IF ~isExpired /\ ~get.err
       THEN /\ callResult' = [callResult EXCEPT ![k] = get]
            /\ callPc' = [callPc EXCEPT ![k] = "done"]
            /\ UNCHANGED mu
       ELSE /\ callPc' = [callPc EXCEPT ![k] = "fetching"]
            /\ mu' = k
            /\ UNCHANGED callResult
    /\ UNCHANGED <<rateCacheRate, rateCacheTimestamp, ttl, now, answers, gatewayVars>>

\* the amounts the rate API can carry in its answer
Amounts == (0 - MaxDeficit)..MaxRate

\* a provider that hands on whatever amount the API answered
GetUSDTToIDRRateAnyAmount(ok, amount) ==
    IF ~ok THEN [rate |-> 0, err |-> TRUE]
    ELSE [rate |-> amount, err |-> FALSE]

\* HTTPRateProvider.GetUSDTToIDRRate. ok: the request was made, answered with
\* status 200 and decoded; amount: result.amount of the answer
GetUSDTToIDRRate(ok, amount) ==
    IF ~ok THEN [rate |-> 0, err |-> TRUE]
    ELSE IF amount <= 0 THEN [rate |-> 0, err |-> TRUE]
    ELSE [rate |-> amount, err |-> FALSE]

\* a GetCurrentRate that falls back to the rate it has when the provider
\* fails
GetCurrentRateFetchedServeStale(k, rate, err) ==
    /\ callPc[k] = "fetching"
    /\ mu = k
    /\ IF err
       THEN /\ callResult' = [callResult EXCEPT ![k] =
                                 IF rateCacheRate # 0
                                 THEN [rate |-> rateCacheRate, err |-> FALSE]
                                 ELSE [rate |-> 0, err |-> TRUE]]
            /\ UNCHANGED <<rateCacheRate, rateCacheTimestamp>>
       ELSE /\ rateCacheRate' = rate
            /\ rateCacheTimestamp' = now
            /\ callResult' = [callResult EXCEPT ![k] = [rate |-> rate, err |-> FALSE]]
    /\ callPc' = [callPc EXCEPT ![k] = "done"]
    /\ mu' = 0
    /\ UNCHANGED <<ttl, now, gatewayVars>>

\* GetCurrentRate from the provider's answer (rate, err) to its return: an
\* error is returned as it is; a rate, whatever it is, is stored by
\* rateCache.set with the time of the store and returned; s.mu is released
GetCurrentRateFetched(k, rate, err) ==
    /\ callPc[k] = "fetching"
    /\ mu = k
    /\ IF err
       THEN /\ callResult' = [callResult EXCEPT ![k] = [rate |-> 0, err |-> TRUE]]
            /\ UNCHANGED <<rateCacheRate, rateCacheTimestamp>>
       ELSE /\ rateCacheRate' = rate
            /\ rateCacheTimestamp' = now
            /\ callResult' = [callResult EXCEPT ![k] = [rate |-> rate, err |-> FALSE]]
    /\ callPc' = [callPc EXCEPT ![k] = "done"]
    /\ mu' = 0
    /\ UNCHANGED <<ttl, now, gatewayVars>>

\* GetCurrentRate's call of s.rateProvider.GetUSDTToIDRRate and what follows
GetCurrentRateProvider(k, ok, amount) ==
    /\ GetCurrentRateFetched(k, GetUSDTToIDRRate(ok, amount).rate,
                                GetUSDTToIDRRate(ok, amount).err)
    /\ answers' = Append(answers, [ok |-> ok, amount |-> amount])

\* time passes
Tick ==
    /\ now < MaxTime
    /\ now' = now + 1
    /\ UNCHANGED <<rateCacheRate, rateCacheTimestamp, ttl, mu, callPc, callResult, answers,
                   gatewayVars>>

\* ----------------------------------------------------------- kafka consumer
\* the goroutine of KafkaReaderConsumer.Start is the caller of GetCurrentRate
ConsumerCaller == 1

\* Broadcaster.HandleMessage; rate: what GetCurrentRate returns if the
\* transformer calls it
BroadcasterHandleMessage(topic, value, rate) ==
    IF topic = TopicUserMargin THEN handleUserRecord(value, ChannelMarginSuffix, rate)
    ELSE IF topic = TopicUserPosition THEN handleUserRecord(value, ChannelPositionSuffix, rate)
    ELSE UNCHANGED <<broadcast, published>>

\* the handler reaches the transformer's call of GetCurrentRate: the topic is
\* known, the value decodes, its user is tracked and it carries the marker
CallsGetCurrentRate(topic, value) ==
    /\ value.json
    /\ getAjaibID(value.cfx_user_id) # EmptyString
    /\ \/ topic = TopicUserMargin /\ value.asset = "IDR"
       \/ topic = TopicUserPosition /\ HasSuffix(value.symbol, idrPerpSuffix)

\* Start, c.reader.FetchMessage returns a message
FetchMessage(topic, value) ==
    /\ ~panicked
    /\ consumer.pc = "fetch"
    /\ ~cancelled.ctx
    /\ fetched' = fetched + 1
    /\ consumer' = [pc |-> "handle",
                    msg |-> [offset |-> fetched + 1, topic |-> topic, value |-> value]]
    /\ UNCHANGED <<committed, rateCacheVars,
                   maxConnectionsPerUser, hubClients, userConnections, channels, broadcast,
                   hubPc, activeUsers, pc, ajaibID, cfxUserID, send, sendClosed,
                   subscriptions, readPump, writePump, connClosed, refused,
                   unregisterSent, framesRead, panicked, published, sendBuffer, written, parsed,
                   liveVars, mainVars, firstWritten>>

\* Start, c.handler(msg.Topic, msg.Key, msg.Value) up to its return, or up to
\* the transformer's call of GetCurrentRate
HandleMessageCall ==
    /\ ~panicked
    /\ consumer.pc = "handle"
    /\ IF CallsGetCurrentRate(consumer.msg.topic, consumer.msg.value)
       THEN /\ callPc' = [callPc EXCEPT ![ConsumerCaller] = "called"]
            /\ consumer' = [consumer EXCEPT !.pc = "rate"]
            /\ UNCHANGED <<broadcast, published>>
       ELSE /\ BroadcasterHandleMessage(consumer.msg.topic, consumer.msg.value, NoResult)
            /\ consumer' = [consumer EXCEPT !.pc = "commit"]
            /\ UNCHANGED callPc
    /\ UNCHANGED <<fetched, committed, rateCacheRate, rateCacheTimestamp, ttl, now, mu,
                   callResult, answers,
                   maxConnectionsPerUser, hubClients, userConnections, channels,
                   hubPc, activeUsers, pc, ajaibID, cfxUserID, send, sendClosed,
                   subscriptions, readPump, writePump, connClosed, refused,
                   unregisterSent, framesRead, panicked, sendBuffer, written, parsed,
                   liveVars, mainVars, firstWritten>>

\* the handler from the return of GetCurrentRate to its own return
HandleMessageReturn ==
    /\ ~panicked
    /\ consumer.pc = "rate"
    /\ callPc[ConsumerCaller] = "done"
    /\ BroadcasterHandleMessage(consumer.msg.topic, consumer.msg.value, callResult[ConsumerCaller])
    /\ callPc' = [callPc EXCEPT ![ConsumerCaller] = "idle"]
    /\ callResult' = [callResult EXCEPT ![ConsumerCaller] = NoResult]
    /\ consumer' = [consumer EXCEPT !.pc = "commit"]
    /\ UNCHANGED <<fetched, committed, rateCacheRate, rateCacheTimestamp, ttl, now, mu,
                   answers,
                   maxConnectionsPerUser, hubClients, userConnections, channels,
                   hubPc, activeUsers, pc, ajaibID, cfxUserID, send, sendClosed,
                   subscriptions, readPump, writePump, connClosed, refused,
                   unregisterSent, framesRead, panicked, sendBuffer, written, parsed,
                   liveVars, mainVars, firstWritten>>

\* a consumer loop that fetches the message again when its handler failed
CommitMessagesUnlessError(ok) ==
    /\ ~panicked
    /\ consumer.pc = "commit"
    /\ IF consumer.msg.topic \in {TopicUserMargin, TopicUserPosition}
             /\ ~consumer.msg.value.json
       THEN /\ consumer' = [consumer EXCEPT !.pc = "handle"]
            /\ UNCHANGED committed
       ELSE /\ committed' = IF ok THEN Append(committed, consumer.msg) ELSE committed
            /\ consumer' = AtFetch
    /\ UNCHANGED <<fetched, rateCacheVars,
                   maxConnectionsPerUser, hubClients, userConnections, channels, broadcast,
                   hubPc, activeUsers, pc, ajaibID, cfxUserID, send, sendClosed,
                   subscriptions, readPump, writePump, connClosed, refused,
                   unregisterSent, framesRead, panicked, published, sendBuffer, written, parsed,
                   liveVars, mainVars, firstWritten>>

\* Start, c.reader.CommitMessages, whatever the handler returned. ok: the
\* commit went through; a failed one is logged and the loop goes on
CommitMessages(ok) ==
    /\ ~panicked
    /\ consumer.pc = "commit"
    /\ committed' = IF ok THEN Append(committed, consumer.msg) ELSE committed
    /\ consumer' = AtFetch
    /\ UNCHANGED <<fetched, rateCacheVars,
                   maxConnectionsPerUser, hubClients, userConnections, channels, broadcast,
                   hubPc, activeUsers, pc, ajaibID, cfxUserID, send, sendClosed,
                   subscriptions, readPump, writePump, connClosed, refused,
                   unregisterSent, framesRead, panicked, published, sendBuffer, written, parsed,
                   liveVars, mainVars, firstWritten>>

\* --------------------------------------------------------------------- main
\* main, sig := <-sigChan: SIGINT or SIGTERM has come
Signal ==
    /\ mainPc = "running"
    /\ mainPc' = "signalled"
    /\ UNCHANGED <<maxConnectionsPerUser, hubClients, userConnections,
                  channels, broadcast, hubPc, activeUsers, pc, ajaibID,
                  cfxUserID, send, sendClosed, subscriptions, readPump,
                  writePump, connClosed, refused, unregisterSent, panicked,
                  framesRead, published, sendBuffer, written, rateCacheRate,
                  rateCacheTimestamp, ttl, now, mu, callPc, callResult,
                  answers, consumer, fetched, committed, parsed, pingInterval,
                  pingTimeout, readDeadline, nextPing, pinged, peerGone,
                  firstWritten, serving, cancelled>>

\* main, wsServer.Shutdown and messageHandler.Stop: Server.Shutdown is
\* httpServer.Shutdown, which closes the listener and leaves the hijacked
\* connections of the clients alone; DefaultHandler.Stop has an empty body
Shutdown ==
    /\ mainPc = "signalled"
    /\ serving' = FALSE
    /\ mainPc' = "stopping"
    /\ UNCHANGED <<maxConnectionsPerUser, hubClients, userConnections,
                  channels, broadcast, hubPc, activeUsers, pc, ajaibID,
                  cfxUserID, send, sendClosed, subscriptions, readPump,
                  writePump, connClosed, refused, unregisterSent, panicked,
                  framesRead, published, sendBuffer, written, rateCacheRate,
                  rateCacheTimestamp, ttl, now, mu, callPc, callResult,
                  answers, consumer, fetched, committed, parsed, pingInterval,
                  pingTimeout, readDeadline, nextPing, pinged, peerGone,
                  firstWritten, cancelled>>

\* KafkaReaderConsumer.Close, c.cancel(): the context of the loop is
\* cancelled. handed: the offset of the last message the handler was called
\* with before this moment.
CloseCancel ==
    /\ mainPc = "stopping"
    /\ cancelled' = [ctx |-> TRUE,
                     handed |-> IF consumer.pc = "handle" THEN fetched - 1 ELSE fetched]
    /\ mainPc' = "closing"
    /\ UNCHANGED <<maxConnectionsPerUser, hubClients, userConnections,
                  channels, broadcast, hubPc, activeUsers, pc, ajaibID,
                  cfxUserID, send, sendClosed, subscriptions, readPump,
                  writePump, connClosed, refused, unregisterSent, panicked,
                  framesRead, published, sendBuffer, written, rateCacheRate,
                  rateCacheTimestamp, ttl, now, mu, callPc, callResult,
                  answers, consumer, fetched, committed, parsed, pingInterval,
                  pingTimeout, readDeadline, nextPing, pinged, peerGone,
                  firstWritten, serving>>

\* Start, case <-ctx.Done() at the top of the loop, or FetchMessage
\* returning the context's error: the loop returns
StartReturn ==
    /\ consumer.pc = "fetch"
    /\ cancelled.ctx
    /\ consumer' = [consumer EXCEPT !.pc = "stopped"]
    /\ UNCHANGED <<maxConnectionsPerUser, hubClients, userConnections,
                  channels, broadcast, hubPc, activeUsers, pc, ajaibID,
                  cfxUserID, send, sendClosed, subscriptions, readPump,
                  writePump, connClosed, refused, unregisterSent, panicked,
                  framesRead, published, sendBuffer, written, rateCacheRate,
                  rateCacheTimestamp, ttl, now, mu, callPc, callResult,
                  answers, fetched, committed, parsed, pingInterval,
                  pingTimeout, readDeadline, nextPing, pinged, peerGone,
                  firstWritten, serving, mainPc, cancelled>>

\* KafkaReaderConsumer.Close from c.wg.Wait() on, and the return of main
CloseWait ==
    /\ mainPc = "closing"
    /\ consumer.pc = "stopped"
    /\ mainPc' = "done"
    /\ UNCHANGED <<maxConnectionsPerUser, hubClients, userConnections,
                  channels, broadcast, hubPc, activeUsers, pc, ajaibID,
                  cfxUserID, send, sendClosed, subscriptions, readPump,
                  writePump, connClosed, refused, unregisterSent, panicked,
                  framesRead, published, sendBuffer, written, rateCacheRate,
                  rateCacheTimestamp, ttl, now, mu, callPc, callResult,
                  answers, consumer, fetched, committed, parsed, pingInterval,
                  pingTimeout, readDeadline, nextPing, pinged, peerGone,
                  firstWritten, serving, cancelled>>

\* ------------------------------------------------------------ specification
\* Hub.Run's register and unregister cases are taken together with the send
\* that feeds them: between Hub.Run receiving a client and running the
\* handler under h.mu nothing of the Hub changes, and the sender's next steps
\* (the greeting, closing the socket) touch only the sender's own client.
\* broadcastToChannel sends outside the lock, so it is split at the unlock.
\*
\* subs: the sub fields the credentials of this run carry; maxFrames: the
\* text frames the clients of this run send; maxEvents: the records of the
\* bus that reach hub.broadcast; quiet: the bus has no record before the
\* clients have sent their frames; stuck: the clients whose WritePump is held
\* in a write to the socket and takes nothing from the queue.
RunStuck(subs, maxFrames, maxEvents, quiet, stuck) ==
    \/ \E c \in Clients, sub \in subs \cup {EmptyString}, u \in BOOLEAN, r \in BOOLEAN :
          handleWebSocket(c, sub, u, r)
    \/ \E c \in Clients : handleWebSocketRegister(c)
    \/ \E c \in Clients, msg \in Commands : framesRead < maxFrames /\ ReadPump(c, msg)
    \/ \E c \in Clients : ReadPumpExit(c)
    \/ \E c \in Clients \ stuck : WritePumpWrite(c)
    \/ \E c \in Clients \ stuck, f \in BOOLEAN : WritePumpFail(c, f)
    \/ \E c \in Clients \ stuck : WritePumpClosed(c)
    \/ broadcastToChannel
    \/ \E c \in Clients : broadcastSend(c)
    \/ \E cfx \in CfxUserIDs, e \in BOOLEAN :
          published < maxEvents /\ (quiet => framesRead = maxFrames)
            /\ handleUserMargin(UserMargin(cfx, IF e THEN "IDR" ELSE "USDT", MaxAmount), NoRate)
    \/ \E cfx \in CfxUserIDs, e \in BOOLEAN :
          published < maxEvents /\ (quiet => framesRead = maxFrames)
            /\ handleUserPosition(
                   UserPosition(cfx, IF e THEN SymbolIDR ELSE SymbolUSDT, MaxAmount), NoRate)

RunEnv(subs, maxFrames, maxEvents, quiet) == RunStuck(subs, maxFrames, maxEvents, quiet, {})

RunEvents(subs, maxFrames, maxEvents) == RunEnv(subs, maxFrames, maxEvents, FALSE)

Run(subs, maxFrames) == RunEvents(subs, maxFrames, MaxEvents)

Next == Run(AjaibIDs, MaxCommands)

Spec == Init /\ [][Next]_vars

\* every connection is one user's, and the clients send one frame more
NextOneUser == Run({<<"1">>}, MaxCommands + 1)

SpecOneUser == Init /\ [][NextOneUser]_vars

\* one user's connections in a program that has callers of Client.Close
NextClose == Run({<<"1">>}, MaxCommands) \/ \E c \in Clients : Close(c)

SpecClose == Init /\ [][NextClose]_vars

\* one user's connections with queues of one frame more, one text frame, and
\* two records more on the bus
InitOrder == InitGateway(SendBuffer + 1) /\ InitRateCache

NextOrder == RunEvents({<<"1">>}, MaxCommands - 1, MaxEvents + 2)

SpecOrder == InitOrder /\ [][NextOrder]_vars

\* one user's connections, with the bus quiet until the clients have sent
\* their frames: every reply was enqueued before any record is accepted
NextQuiet == RunEnv({<<"1">>}, MaxCommands, MaxEvents, TRUE)

SpecQuiet == Init /\ [][NextQuiet]_vars

\* one user's connections, the first with a WritePump that never drains its
\* queue. Hub.Run is a goroutine that is scheduled; a sender on hub.register
\* is served when Hub.Run comes back to its select often enough.
NextStuck == RunStuck({<<"1">>}, MaxCommands, MaxEvents, FALSE, {1})

SpecStuck ==
    /\ Init
    /\ [][NextStuck]_vars
    /\ WF_vars(broadcastToChannel)
    /\ \A c \in Clients : WF_vars(broadcastSend(c))
    /\ \A c \in Clients : SF_vars(handleWebSocketRegister(c))

\* every caller has called GetCurrentRate, with nothing in the cache (Empty) or
\* with a rate stored longer ago than the ttl (Expired)
InitCalls ==
    /\ InitGateway(SendBuffer)
    /\ ttl = CacheTTL
    /\ \/ rateCacheRate = 0 /\ rateCacheTimestamp = 0 /\ now = 0
       \/ rateCacheRate = 1 /\ rateCacheTimestamp = 0 /\ now = CacheTTL + 1
    /\ mu = 0
    /\ callPc = [k \in Callers |-> "called"]
    /\ callResult = [k \in Callers |-> NoResult]
    /\ answers = << >>

NextCalls ==
    \/ \E k \in Callers : GetCurrentRate(k)
    \/ \E k \in Callers : GetCurrentRateLocked(k)
    \/ \E k \in Callers, ok \in BOOLEAN, amount \in Amounts :
          (ok \/ amount = 0) /\ GetCurrentRateProvider(k, ok, amount)
    \/ Tick

SpecCalls == InitCalls /\ [][NextCalls]_vars

\* GetCurrentRate called by several goroutines on an empty cache whose ttl is
\* 0, or longer than the clock runs
InitTTL ==
    /\ InitGateway(SendBuffer)
    /\ ttl \in {0, MaxTime + 1}
    /\ rateCacheRate = 0 /\ rateCacheTimestamp = 0 /\ now = 0
    /\ mu = 0
    /\ callPc = [k \in Callers |-> "called"]
    /\ callResult = [k \in Callers |-> NoResult]
    /\ answers = << >>

SpecTTL == InitTTL /\ [][NextCalls]_vars

\* what the bus carries: values of the two topics that decode or do not, with
\* and without the marker, and a message of a topic the gateway does not know
BusMessages ==
    {<<TopicUserMargin, UserMargin(cfx, asset, MaxAmount)>> :
         cfx \in CfxUserIDs, asset \in {"USDT", "IDR", "idr"}}
      \cup {<<TopicUserPosition, UserPosition(cfx, symbol, MaxAmount)>> :
         cfx \in CfxUserIDs, symbol \in {SymbolUSDT, SymbolIDR, SymbolIDRSpot}}
      \cup {<<TopicUserMargin, NoData>>, <<TopicUserPosition, NoData>>, <<"Heartbeat", NoData>>}

\* one client connects and subscribes to its channels; then the consumer
\* loop runs on the messages of the bus, its transformer asks the currency
\* service for the rate, and the time of the rate cache passes
NextIngress ==
    \/ \E r \in BOOLEAN : handleWebSocket(1, <<"1">>, TRUE, r)
    \/ handleWebSocketRegister(1)
    \/ \E suffix \in ValidUserChannels, id \in MsgIDs :
          /\ framesRead < MaxCommands
          /\ ReadPump(1, [json |-> TRUE, type |-> "subscribe", id |-> id,
                          channel |-> ChannelName(<<"1">>, suffix)])
    \/ WritePumpWrite(1)
    \/ broadcastToChannel
    \/ broadcastSend(1)
    \/ \E m \in BusMessages :
          framesRead = MaxCommands /\ fetched < MaxMessages /\ FetchMessage(m[1], m[2])
    \/ HandleMessageCall
    \/ GetCurrentRate(ConsumerCaller)
    \/ GetCurrentRateLocked(ConsumerCaller)
    \/ \E ok \in BOOLEAN, amount \in Amounts :
          (ok \/ amount = 0) /\ GetCurrentRateProvider(ConsumerCaller, ok, amount)
    \/ HandleMessageReturn
    \/ \E ok \in BOOLEAN : CommitMessages(ok)
    \/ framesRead = MaxCommands /\ Tick

SpecIngress == Init /\ [][NextIngress]_vars

\* the strings ParseChannel is called with: a prefix, an identifier, a
\* separator and a suffix, each right or wrong in the ways a client can get
\* them wrong
TenDigits == <<"1", "2", "3", "4", "5", "6", "7", "8", "9", "0">>

ParseInputs ==
    {prefix \o id \o sep \o suffix :
        prefix \in {PrefixUser, <<"a", "l", "l", ":">>, <<"u", "s", "e", "r">>,
                    <<"U", "s", "e", "r", ":">>, EmptyString},
        id \in {EmptyString, <<"1">>, <<"0", "7">>, TenDigits, TenDigits \o <<"1">>,
                <<"1", "a">>, <<"-", "1">>, <<"1", "\n">>},
        sep \in {<<":">>, EmptyString, <<":", ":">>},
        suffix \in {ChannelMarginSuffix, ChannelPositionSuffix, EmptyString, <<"x">>,
                    <<"M", "a", "r", "g", "i", "n">>,
                    ChannelMarginSuffix \o <<":", "1">>,
                    ChannelMarginSuffix \o <<":">>,
                    ChannelMarginSuffix \o <<"s">>}}

\* a call of ParseChannel with one of these strings, and what it returned
ParseChannelCall(channel) ==
    /\ parsed' = [channel |-> channel, done |-> TRUE, info |-> ParseChannel(channel)]
    /\ UNCHANGED <<rateCacheVars, consumerVars,
                   maxConnectionsPerUser, hubClients, userConnections, channels, broadcast,
                   hubPc, activeUsers, pc, ajaibID, cfxUserID, send, sendClosed,
                   subscriptions, readPump, writePump, connClosed, refused,
                   unregisterSent, framesRead, panicked, published, sendBuffer, written,
                   liveVars, mainVars, firstWritten>>

NextParse == \E channel \in ParseInputs : ParseChannelCall(channel)

SpecParse == Init /\ [][NextParse]_vars

\* one client whose peer sends text frames and pongs or keeps silent, under
\* every configuration of the two ping settings. The clock does not pass the
\* moment a running WritePump's ticker fires before the ping is written.
InitPing ==
    /\ \E interval \in 1..MaxPing, timeout \in 1..MaxPing :
          InitServer(SendBuffer, interval, timeout)
    /\ InitRateCache

TickPing ==
    /\ \A c \in Clients :
          (writePump[c] = "running" /\ ~connClosed[c]) => now < nextPing[c]
    /\ Tick

NextPing ==
    \/ handleWebSocket(1, <<"1">>, TRUE, TRUE)
    \/ handleWebSocketRegister(1)
    \/ \E id \in MsgIDs :
          /\ framesRead < MaxCommands
          /\ ReadPump(1, [json |-> TRUE, type |-> "ping", id |-> id, channel |-> EmptyString])
    \/ ReadPumpPong(1)
    \/ WritePumpPing(1)
    \/ WritePumpWrite(1)
    \/ SocketFails(1)
    \/ ReadFails(1) /\ ReadPumpExit(1)
    \/ \E f \in BOOLEAN : WriteFails(1, f) /\ WritePumpFail(1, f)
    \/ WritePumpClosed(1)
    \/ TickPing

\* the two pumps are goroutines that are scheduled
SpecPing ==
    /\ InitPing
    /\ [][NextPing]_vars
    /\ WF_vars(ReadFails(1) /\ ReadPumpExit(1))
    /\ WF_vars(WriteFails(1, TRUE) /\ WritePumpFail(1, TRUE))
    /\ WF_vars(WritePumpClosed(1))

\* one user's connections, the first with a WritePump that takes nothing from
\* a queue long enough to hold every frame the run enqueues to it: the queue
\* is the order in which the frames were enqueued
InitRace == InitGateway(SendBuffer + 3) /\ InitRateCache

NextRace == RunStuck({<<"1">>}, MaxCommands, MaxEvents, FALSE, {1})

SpecRace == InitRace /\ [][NextRace]_vars

\* one user's connections with handleWebSocket taken step by step, so that
\* Hub.Run and the other clients' pumps run between its steps, and with the
\* first frame each WritePump writes kept in mind
NextGreeting ==
    \/ \E c \in Clients, sub \in {<<"1">>, EmptyString}, u \in BOOLEAN, r \in BOOLEAN :
          handleWebSocket(c, sub, u, r)
    \/ \E c \in Clients : handleWebSocketHandOver(c)
    \/ \E c \in Clients : handleWebSocketGreeting(c)
    \/ \E c \in Clients : handleWebSocketPumps(c)
    \/ \E c \in Clients, msg \in Commands : framesRead < MaxCommands /\ ReadPump(c, msg)
    \/ \E c \in Clients : ReadPumpExit(c)
    \/ \E c \in Clients : WritePumpWriteSeen(c)
    \/ \E c \in Clients, f \in BOOLEAN : WritePumpFail(c, f)
    \/ \E c \in Clients : WritePumpClosed(c)
    \/ broadcastToChannel
    \/ \E c \in Clients : broadcastSend(c)
    \/ \E cfx \in CfxUserIDs :
          published < MaxEvents /\ handleUserMargin(UserMargin(cfx, "USDT", MaxAmount), NoRate)

SpecGreeting == Init /\ [][NextGreeting]_vars

\* one user's connections whose sockets may break and whose peers send one
\* subscribe and no pong, with the bus running. A pump ends only when its
\* read or write fails. The pumps and Hub.Run are goroutines that are
\* scheduled; the sender on hub.unregister is served when Hub.Run comes back
\* to its select.
NextTeardown ==
    \/ \E c \in Clients : handleWebSocket(c, <<"1">>, TRUE, TRUE)
    \/ \E c \in Clients : handleWebSocketRegister(c)
    \/ \E c \in Clients, id \in MsgIDs :
          /\ framesRead < MaxCommands - 1
          /\ ReadPump(c, [json |-> TRUE, type |-> "subscribe", id |-> id,
                          channel |-> ChannelName(<<"1">>, ChannelMarginSuffix)])
    \/ \E c \in Clients : ReadFails(c) /\ ReadPumpExit(c)
    \/ \E c \in Clients : WritePumpWrite(c)
    \/ \E c \in Clients, f \in BOOLEAN : WriteFails(c, f) /\ WritePumpFail(c, f)
    \/ \E c \in Clients : WritePumpClosed(c)
    \/ \E c \in Clients : SocketFails(c)
    \/ broadcastToChannel
    \/ \E c \in Clients : broadcastSend(c)
    \/ published < MaxEvents /\ handleUserMargin(UserMargin("C1", "USDT", MaxAmount), NoRate)
    \/ Tick

SpecTeardown ==
    /\ Init
    /\ [][NextTeardown]_vars
    /\ WF_vars(broadcastToChannel)
    /\ \A c \in Clients : WF_vars(broadcastSend(c))
    /\ \A c \in Clients : WF_vars(ReadFails(c) /\ ReadPumpExit(c))
    /\ \A c \in Clients : WF_vars(WriteFails(c, TRUE) /\ WritePumpFail(c, TRUE))
    /\ \A c \in Clients : WF_vars(WritePumpClosed(c))

\* the service from its start to the return of main: the connections of one
\* user, the consumer loop on two kinds of message, and the shutdown sequence
\* after a signal. CommitMessages is called with the loop's context: once the
\* context is cancelled it may return the context's error without having
\* handed the offset to the reader.
ShutdownMessages ==
    {<<TopicUserMargin, UserMargin("C1", "USDT", MaxAmount)>>, <<"Heartbeat", NoData>>}

NextShutdown ==
    \/ \E c \in Clients : handleWebSocket(c, <<"1">>, TRUE, TRUE)
    \/ \E c \in Clients : handleWebSocketRegister(c)
    \/ \E c \in Clients, id \in MsgIDs :
          /\ framesRead < MaxCommands - 1
          /\ ReadPump(c, [json |-> TRUE, type |-> "subscribe", id |-> id,
                          channel |-> ChannelName(<<"1">>, ChannelMarginSuffix)])
    \/ \E c \in Clients : ReadPumpExit(c)
    \/ \E c \in Clients : WritePumpWrite(c)
    \/ \E c \in Clients : WritePumpClosed(c)
    \/ broadcastToChannel
    \/ \E c \in Clients : broadcastSend(c)
    \/ \E m \in ShutdownMessages : fetched < MaxMessages /\ FetchMessage(m[1], m[2])
    \/ HandleMessageCall
    \/ \E ok \in BOOLEAN : (ok \/ cancelled.ctx) /\ CommitMessages(ok)
    \/ Signal
    \/ Shutdown
    \/ CloseCancel
    \/ StartReturn
    \/ CloseWait

SpecShutdown == Init /\ [][NextShutdown]_vars

\* ------------------------------------------------------------------- claims
\* clients whose ReadPump runs: connected, and not yet handed to hub.unregister
Live == {c \in Clients : readPump[c] = "running"}

Publications(c) == {k \in 1..Len(send[c]) : send[c][k].type = "publication"}

\* C1: a publication produced from a bus record with cfx_user_id i is put on
\* the queue only of clients whose ajaib id is the one the resolver maps to i,
\* which is the ajaib id of a client that resolved to i and the one in the
\* publication's channel; the same holds of the clients broadcastToChannel
\* has copied and is about to send to.
C1_PublicationOnlyToItsUser ==
    /\ \A c \in Clients : \A k \in Publications(c) :
          LET i == send[c][k].data.cfx_user_id IN
          /\ CfxOf(ajaibID[c]) = i
          /\ \E d \in Clients : cfxUserID[d] = i /\ ajaibID[d] = ajaibID[c]
          /\ ParseChannel(send[c][k].channel).AjaibID = ajaibID[c]
    /\ hubPc.op = "broadcast" =>
          \A c \in hubPc.list : CfxOf(ajaibID[c]) = hubPc.data.cfx_user_id

\* a publication sits in the queue of one user's client while a client of
\* another user is connected and subscribed
C1_Witness ==
    \E c, d \in Clients :
        /\ ajaibID[c] # ajaibID[d]
        /\ Publications(c) # {}
        /\ d \in Live
        /\ subscriptions[d] # {}

\* the well-formed channel names that carry another ajaib id than the client's
ForeignChannels(c) ==
    {ChannelName(p, suffix) : p \in AjaibIDs \ {ajaibID[c]}, suffix \in ValidUserChannels}

\* C2 (the step): handling a subscribe to a channel of another ajaib id leaves
\* Hub.channels, Hub.clients, Hub.userConnections, the client's subscriptions
\* and activeUsers as they were, and the frame it sends is the error 4001 (on
\* the queue if it has room)
C2_ForeignSubscribeStep ==
    framesRead' # framesRead =>
    \A c \in Live : \A ch \in ForeignChannels(c) : \A id \in MsgIDs :
        ReadPump(c, [json |-> TRUE, type |-> "subscribe", id |-> id, channel |-> ch]) =>
            /\ UNCHANGED <<hubClients, userConnections, channels, subscriptions, activeUsers>>
            /\ subscribeError(c, ch) = CodeChannelNotFound
            /\ Len(send[c]) < sendBuffer =>
                  send'[c] = Append(send[c], NewErrorMessage(id, CodeChannelNotFound))
            /\ Len(send[c]) >= sendBuffer => send'[c] = send[c]

\* C2 (the states): every channel a client is subscribed to, and every channel
\* of Hub.channels it is a member of, carries the client's own ajaib id
C2_OwnChannelsOnly ==
    \A c \in Clients :
        /\ \A ch \in subscriptions[c] :
              ParseChannel(ch).err = "" /\ ParseChannel(ch).AjaibID = ajaibID[c]
        /\ \A ch \in DOMAIN channels :
              c \in channels[ch] => ParseChannel(ch).AjaibID = ajaibID[c]

\* C2: a subscribe whose channel carries another ajaib id than the client's
\* is answered with 4001 and changes nothing, and in every reachable state a
\* client's subscriptions carry its own ajaib id
C2_ForeignSubscribeRejected == [](C2_OwnChannelsOnly) /\ [][C2_ForeignSubscribeStep]_vars

\* a client with a subscription of its own has just been answered 4001
C2_Witness ==
    \E c \in Live :
        /\ subscriptions[c] # {}
        /\ \E k \in 1..Len(send[c]) :
              send[c][k].type = "error" /\ send[c][k].code = CodeChannelNotFound

\* sessions of ajaib id p in Hub.clients
LiveOf(p) == {c \in hubClients : ajaibID[c] = p}

\* C3 (the claim): whenever the Hub is between operations, the per-user count
\* of every ajaib id is the number of clients of Hub.clients with that id,
\* whatever the configured limit
C3_CountEqualsLiveSessions ==
    hubPc.op = "idle" =>
        \A p \in AjaibIDs : GetUserConnectionCount(p) = Cardinality(LiveOf(p))

\* C4 (the claim): with a limit N > 0 no more than N clients of one ajaib id
\* are connected with a running read pump
C4_AtMostLimitRunning ==
    maxConnectionsPerUser > 0 =>
        \A p \in AjaibIDs :
            Cardinality({c \in Live : ajaibID[c] = p}) <= maxConnectionsPerUser

\* C5 (the claim): a client registerClient refused is never started: it gets
\* no greeting and no pumps
C5_RefusedNeverStarted ==
    \A c \in refused :
        /\ pc[c] # "started"
        /\ readPump[c] = "none"
        /\ writePump[c] = "none"
        /\ send[c] = << >>

\* live clients that resolved to cfx_user_id i and hold a subscription
SubscribedOf(i) == {c \in Live : cfxUserID[c] = i /\ subscriptions[c] # {}}

\* C6 (the claim): while a live client with a non-empty cfx_user_id i holds a
\* subscription, the tracker maps i to the client's ajaib id
C6_MappingWhileSubscribed ==
    \A i \in CfxUserIDs : \A c \in SubscribedOf(i) : getAjaibID(i) = ajaibID[c]

\* C7 (the claim): a read pump exit of a subscribed client that resolved to i,
\* after which no live client with i holds a subscription, leaves the tracker
\* without a mapping for i
C7_TeardownReleasesTracker ==
    [][\A c \in Clients :
          (/\ readPump[c] = "running"
           /\ readPump'[c] = "exited"
           /\ cfxUserID[c] # ""
           /\ subscriptions[c] # {}
           /\ SubscribedOf(cfxUserID[c]) \ {c} = {})
          => ~Has(activeUsers', cfxUserID[c])]_vars

\* C8 (the claim): a second unregister of a client leaves Hub.clients,
\* Hub.userConnections and Hub.channels as the first left them and does not
\* close the client's queue again
C8_UnregisterIdempotent ==
    [][\A c \in Clients :
          (unregisterSent[c] >= 1 /\ unregisterSent'[c] = unregisterSent[c] + 1)
          => /\ UNCHANGED <<hubClients, userConnections, channels, sendClosed>>
             /\ ~panicked']_vars

\* C9: no client is handed to hub.unregister more than once; it has been
\* handed over exactly once when its read pump has returned, and then its
\* queue is closed; whichever pump has returned, the socket is closed; and
\* once the socket is closed the read pump has no step left but the one that
\* hands the client over
C9_OneUnregisterPerSession ==
    \A c \in Clients :
        /\ unregisterSent[c] <= 1
        /\ (readPump[c] = "exited") = (unregisterSent[c] = 1)
        /\ unregisterSent[c] = 1 => sendClosed[c] /\ c \notin hubClients
        /\ (readPump[c] = "exited" \/ writePump[c] = "exited") => connClosed[c]
        /\ (connClosed[c] /\ readPump[c] = "running" /\ hubPc.op = "idle")
              => ENABLED ReadPumpExit(c)
        /\ (connClosed[c] /\ readPump[c] = "running")
              => \A msg \in Commands : ~ENABLED ReadPump(c, msg)

\* the write pump of a subscribed client failed, the read pump returned after
\* it, and the client was handed over once
C9_Witness ==
    \E c \in Clients :
        /\ writePump[c] = "exited"
        /\ ~(send[c] = << >> /\ sendClosed[c])
        /\ readPump[c] = "exited"
        /\ unregisterSent[c] = 1
        /\ subscriptions[c] # {}

\* C10 (the claim): the unregister of a client of Hub.clients that holds
\* subscriptions leaves it in no set of Hub.channels, leaves no set empty
\* among the channels it was subscribed to, takes it out of Hub.clients and
\* lowers the count of its ajaib id by one, the key being deleted at zero
C10_UnregisterSubscribed ==
    [][\A c \in hubClients :
          (unregisterSent'[c] = unregisterSent[c] + 1 /\ subscriptions[c] # {})
          => /\ \A ch \in DOMAIN channels' : c \notin channels'[ch]
             /\ \A ch \in subscriptions[c] : Has(channels', ch) => channels'[ch] # {}
             /\ c \notin hubClients'
             /\ LET n == GetUserConnectionCount(ajaibID[c]) IN
                /\ n >= 1
                /\ IF n = 1
                   THEN ~Has(userConnections', ajaibID[c])
                   ELSE userConnections'[ajaibID[c]] = n - 1]_vars

\* clients the Hub has not been asked to unregister
NotUnregistered == {c \in Clients : unregisterSent[c] = 0}

\* s is in channel_subscribers[c] iff c is in s's subscription set
InChannelIffSubscribed(c) ==
    \A ch \in DOMAIN channels \cup subscriptions[c] :
        (Has(channels, ch) /\ c \in channels[ch]) <=> ch \in subscriptions[c]

\* C11 (as stated): for every client, unregistered ones included, the client
\* is in Hub.channels[ch] iff ch is in the client's subscriptions
C11_MembershipIffSubscribedAll == \A c \in Clients : InChannelIffSubscribed(c)

\* C11: for every client the Hub has not been asked to unregister, the client
\* is in Hub.channels[ch] iff ch is in the client's subscriptions; a client
\* that was unregistered is in no set of Hub.channels
C11_MembershipIffSubscribed ==
    /\ \A c \in NotUnregistered : InChannelIffSubscribed(c)
    /\ \A c \in Clients \ NotUnregistered :
          \A ch \in DOMAIN channels : c \notin channels[ch]

\* one client is the member of a channel that another client, unregistered
\* since, was subscribed to as well
C11_Witness ==
    \E c \in NotUnregistered : \E d \in Clients \ NotUnregistered :
        \E ch \in subscriptions[c] \cap subscriptions[d] : channels[ch] = {c}

\* C12 (the claim): Hub.channels has no key whose set of clients is empty
C12_NoEmptyChannelSet == \A ch \in DOMAIN channels : channels[ch] # {}

\* the channels of its own ajaib id a client is not subscribed to
OwnUnsubscribedChannels(c) ==
    {ChannelName(ajaibID[c], suffix) : suffix \in ValidUserChannels} \ subscriptions[c]

\* C13 (the claim): for a client with running pumps and a channel of its own
\* it is not subscribed to, SubscribeClient followed by UnsubscribeClient
\* gives back Hub.channels, key set included
C13_SubscribeUnsubscribeRestores ==
    \A c \in Live : \A ch \in OwnUnsubscribedChannels(c) :
        channelsUnsubscribed(channelsSubscribed(channels, c, ch), c, ch) = channels

\* C14 (the claim): a client is a member of a set of Hub.channels only if it
\* is in Hub.clients
C14_SubscribersAreRegistered ==
    \A ch \in DOMAIN channels : channels[ch] \subseteq hubClients

\* one iteration of broadcastToChannel's loop has run
BroadcastSendStep == hubPc.op = "broadcast" /\ hubPc' # hubPc

\* C15 (the step): an iteration of broadcastToChannel's loop takes one client
\* of the copied list; the publication is appended to that client's queue
\* when the queue has room and the queue is left as it is when it is full;
\* no other queue changes, and the loop goes on with the clients that remain
C15_BroadcastSendStep ==
    BroadcastSendStep =>
        \E c \in hubPc.list :
            /\ send'[c] = IF Len(send[c]) < sendBuffer
                          THEN Append(send[c], NewPublicationMessage(hubPc.channel, hubPc.data))
                          ELSE send[c]
            /\ \A d \in Clients \ {c} : send'[d] = send[d]
            /\ hubPc' = IF hubPc.list = {c} THEN Idle
                        ELSE [hubPc EXCEPT !.list = hubPc.list \ {c}]
            /\ ~panicked'

\* C15 (the states): no queue holds more than its capacity, and while
\* broadcastToChannel has clients left, its next iteration can run whatever
\* the queues hold
C15_NeverWaits ==
    /\ \A c \in Clients : Len(send[c]) <= sendBuffer
    /\ hubPc.op = "broadcast" =>
          /\ hubPc.list # {}
          /\ \A c \in hubPc.list : ENABLED broadcastSend(c)

\* C15: a broadcast drops the publication for a subscriber whose queue is
\* full and for that subscriber only, enqueues it for every other subscriber
\* with room, never fills a queue beyond its capacity and never waits
C15_BroadcastNonBlocking == [](C15_NeverWaits) /\ [][C15_BroadcastSendStep]_vars

\* of two subscribers of one channel, one has the publication in its queue
\* and the other, whose queue was full of something else, has not
C15_Witness ==
    \E c, d \in Live : \E ch \in subscriptions[c] \cap subscriptions[d] :
        /\ c # d
        /\ hubPc.op = "idle"
        /\ published = 1
        /\ broadcast = << >>
        /\ \E k \in Publications(c) : send[c][k].channel = ch
        /\ Len(send[d]) = sendBuffer
        /\ Publications(d) = {}
        /\ written[d] = << >>

\* the numbers of the records whose publications are in a queue, in order
QueuedSeqs(q) ==
    [k \in 1..Len(SelectSeq(q, LAMBDA f : f.type = "publication")) |->
        SelectSeq(q, LAMBDA f : f.type = "publication")[k].data.seq]

StrictlyIncreasing(q) == \A i, j \in 1..Len(q) : i < j => q[i] < q[j]

\* C16: records are numbered in the order Hub.Broadcast accepted them. The
\* publications written to a client's socket, followed by those waiting in
\* its queue, followed by the one broadcastToChannel is about to send to it,
\* followed by those waiting in Hub.broadcast, are in increasing order of
\* their record numbers: what is delivered is never reordered, and dropped
\* publications leave gaps only
C16_DeliveredInAcceptedOrder ==
    \A c \in Clients :
        StrictlyIncreasing(
            written[c] \o QueuedSeqs(send[c])
                \o (IF hubPc.op = "broadcast" /\ c \in hubPc.list
                    THEN <<hubPc.data.seq>> ELSE << >>)
                \o [k \in 1..Len(broadcast) |-> broadcast[k].Data.seq])

\* a client was written the first and the third record of its channel, the
\* second having been dropped at its full queue
C16_Witness ==
    \E c \in Clients : written[c] = <<1, 3>> /\ Cardinality(subscriptions[c]) = 1

\* Hub.Run has taken a message from Hub.broadcast
BroadcastTakeStep == hubPc.op = "idle" /\ broadcast # << >> /\ broadcast' = Tail(broadcast)

\* the iteration of broadcastToChannel's loop that has run is client c's
TurnOf(c) ==
    /\ BroadcastSendStep
    /\ c \in hubPc.list
    /\ hubPc' = IF hubPc.list = {c} THEN Idle ELSE [hubPc EXCEPT !.list = hubPc.list \ {c}]

\* clients that are subscribed to channel ch and have not been unregistered
SubscribersOf(ch) == {c \in NotUnregistered : ch \in subscriptions[c]}

\* the subscribed reply for channel ch is in the client's queue
ReplyQueued(c, ch) ==
    \E k \in 1..Len(send[c]) : send[c][k].type = "subscribed" /\ send[c][k].channel = ch

\* C17 (as stated): with every reply enqueued before the first record is
\* accepted, a client whose queue holds the subscribed reply for a channel
\* and that is still subscribed gets every publication of the channel
\* appended to its queue
C17_EveryLaterPublicationEnqueued ==
    [][\A c \in Clients :
          (TurnOf(c) /\ hubPc.channel \in subscriptions[c] /\ ReplyQueued(c, hubPc.channel))
          => send'[c] = Append(send[c], NewPublicationMessage(hubPc.channel, hubPc.data))]_vars

\* C17 (the steps): the message Hub.Run takes is the oldest of Hub.broadcast,
\* and every client subscribed to its channel is in the list broadcastToChannel
\* sends to; at its turn a client still subscribed gets the publication
\* appended to its queue if the queue has room, and nothing if it is full
C17_Steps ==
    /\ BroadcastTakeStep =>
          LET message == Head(broadcast) IN
          /\ SubscribersOf(message.Channel) # {} =>
                /\ hubPc'.op = "broadcast"
                /\ hubPc'.channel = message.Channel
                /\ hubPc'.data = message.Data
                /\ SubscribersOf(message.Channel) \subseteq hubPc'.list
    /\ \A c \in Clients :
          (TurnOf(c) /\ hubPc.channel \in subscriptions[c]) =>
              send'[c] = IF Len(send[c]) < sendBuffer
                         THEN Append(send[c], NewPublicationMessage(hubPc.channel, hubPc.data))
                         ELSE send[c]
    /\ broadcast' # broadcast =>
          \/ BroadcastTakeStep
          \/ /\ Len(broadcast') = Len(broadcast) + 1
             /\ SubSeq(broadcast', 1, Len(broadcast)) = broadcast

\* C17: a publication accepted after a client's subscribed reply was enqueued
\* is enqueued to the client while it stays subscribed, unless the client's
\* queue is full at that moment: no accepted message is lost before
\* broadcastToChannel, no subscriber is left out of its list, and only a
\* full queue keeps a publication from a client of the list
C17_LaterPublicationEnqueuedIfRoom == [][C17_Steps]_vars

\* two clients subscribed to a channel before the record was accepted, both
\* have its publication in their queues
C17_Witness ==
    \E c, d \in Live : \E ch \in subscriptions[c] \cap subscriptions[d] :
        /\ c # d
        /\ \E k \in Publications(c) : send[c][k].channel = ch
        /\ \E k \in Publications(d) : send[d][k].channel = ch

\* the subscribe and unsubscribe frames for the channels of a client's own
OwnCommands(c) ==
    {[json |-> TRUE, type |-> t, id |-> id, channel |-> ChannelName(ajaibID[c], suffix)] :
        t \in {"subscribe", "unsubscribe"}, id \in MsgIDs, suffix \in ValidUserChannels}

\* C18 (the states): with Hub.Run in its select, a client that waits on
\* hub.register is taken and a read pump that returns hands its client over;
\* a frame read from a connected client is handled wherever Hub.Run is, and
\* Hub.Run in a broadcast can send to each client that is left
C18_NothingWaitsOnAQueue ==
    /\ hubPc.op = "idle" =>
          /\ \A c \in Clients : pc[c] = "upgraded" => ENABLED handleWebSocketRegister(c)
          /\ \A c \in Live : ENABLED ReadPumpExit(c)
    /\ \A c \in Live : ~connClosed[c] => \A msg \in OwnCommands(c) : ENABLED ReadPump(c, msg)
    /\ hubPc.op = "broadcast" => \A c \in hubPc.list : ENABLED broadcastSend(c)

\* C18: with the first client's write pump stuck, every broadcast Hub.Run has
\* begun comes to its end, Hub.broadcast does not stay full, so that the
\* dispatcher's Hub.Broadcast returns, every client handed to hub.register is
\* started, and register, unregister, subscribe and unsubscribe are never
\* held up by a queue
C18_StuckSessionBlocksNothing ==
    /\ [](C18_NothingWaitsOnAQueue)
    /\ (hubPc.op = "broadcast") ~> (hubPc.op = "idle")
    /\ (Len(broadcast) = BroadcastBuffer) ~> (Len(broadcast) < BroadcastBuffer)
    /\ \A c \in Clients : (pc[c] = "upgraded") ~> (pc[c] = "started")

\* the stuck client is subscribed and its queue is full, the publication of
\* its channel is in the queue of the other subscriber, and Hub.Run is back
\* in its select
C18_Witness ==
    \E ch \in subscriptions[1] \cap subscriptions[2] :
        /\ {1, 2} \subseteq Live
        /\ Len(send[1]) = sendBuffer
        /\ Publications(1) = {}
        /\ \E k \in Publications(2) : send[2][k].channel = ch
        /\ hubPc.op = "idle"

\* the clients NewClient built with an empty cfxUserID: the lookup of
\* resolveCfxUserID failed
Unresolved == {c \in Clients : pc[c] # "none" /\ cfxUserID[c] = ""}

\* C19 (the subscribe): a subscribe of an unresolved client to a channel of its
\* own that it does not hold is carried out and answered with subscribed (on
\* the queue if it has room), and activeUsers stays as it was
C19_UnresolvedSubscribeStep ==
    framesRead' # framesRead =>
    \A c \in Live \cap Unresolved : \A ch \in OwnUnsubscribedChannels(c) : \A id \in MsgIDs :
        ReadPump(c, [json |-> TRUE, type |-> "subscribe", id |-> id, channel |-> ch]) =>
            /\ subscriptions'[c] = subscriptions[c] \cup {ch}
            /\ Has(channels', ch) /\ c \in channels'[ch]
            /\ Len(send[c]) < sendBuffer =>
                  send'[c] = Append(send[c], NewSubscribedMessage(id, ch))
            /\ activeUsers' = activeUsers

\* C19 (the traffic): no publication is on the queue of an unresolved client,
\* and none was written to its socket
C19_UnresolvedReceivesNothing ==
    \A c \in Unresolved : Publications(c) = {} /\ written[c] = << >>

\* C19: a client whose cfxUserID is empty can subscribe to its own channels and
\* is answered subscribed, activeUsers is not changed for it, and no
\* publication is ever enqueued to it
C19_UnresolvedSessionGetsNoTraffic ==
    [](C19_UnresolvedReceivesNothing) /\ [][C19_UnresolvedSubscribeStep]_vars

\* the callers that hold s.mu and wait for the provider's answer
Fetching == {k \in Callers : callPc[k] = "fetching"}

\* the callers whose GetCurrentRate has returned
Returned == {k \in Callers : callPc[k] = "done"}

\* the requests GetCurrentRate has made to the provider: the answered ones and
\* the one in flight
Requests == Len(answers) + Cardinality(Fetching)

\* C20 (as stated): the callers that found the cache empty or expired make one
\* request to the provider between them, and all of them return the same
\* result
C20_OneRequestOneResult ==
    /\ Requests <= 1
    /\ \A j, k \in Returned : callResult[j] = callResult[k]

\* C20 (the states): one caller at most is with the provider, and it holds
\* s.mu; while the cache holds a rate that has not expired nobody is with the
\* provider, and if the provider was asked once, all callers that returned
\* returned that rate
C20_OneFlightAtATime ==
    /\ Cardinality(Fetching) <= 1
    /\ \A k \in Callers : k \in Fetching <=> mu = k
    /\ ~isExpired =>
          /\ Fetching = {}
          /\ Len(answers) = 1 =>
                /\ answers[1] = [ok |-> TRUE, amount |-> rateCacheRate]
                /\ \A k \in Returned : callResult[k] = [rate |-> rateCacheRate, err |-> FALSE]

\* C20 (the step): the provider is asked only by a caller that found the
\* cache empty or expired after it took s.mu
C20_RequestStep ==
    \A k \in Callers :
        (callPc[k] # "fetching" /\ callPc'[k] = "fetching") =>
            /\ isExpired
            /\ mu = 0 /\ mu' = k
            /\ Fetching = {}

\* C20: callers that find the cache empty or expired ask the provider one at a
\* time, each only if the cache is still empty or expired once it holds
\* s.mu; when the provider answers the first request with a positive rate
\* that does not expire meanwhile, that request is the only one and every
\* caller returns its rate
C20_SingleFlightWhileFresh == [](C20_OneFlightAtATime) /\ [][C20_RequestStep]_vars

\* all callers found the cache empty or expired, one of them asked the
\* provider, and all returned the rate it answered
C20_Witness ==
    /\ Returned = Callers
    /\ Len(answers) = 1
    /\ answers[1].ok /\ answers[1].amount > 0
    /\ \A k \in Callers : callResult[k] = [rate |-> answers[1].amount, err |-> FALSE]

\* C21 (the step): a request the rate API answers with an amount that is not
\* positive makes GetCurrentRate return an error and leaves the cache as it was
C21_NonPositiveAnswerStep ==
    \A k \in Fetching : \A amount \in Amounts :
        (amount <= 0 /\ GetCurrentRateProvider(k, TRUE, amount)) =>
            /\ callResult'[k] = [rate |-> 0, err |-> TRUE]
            /\ UNCHANGED <<rateCacheRate, rateCacheTimestamp>>

\* C21 (the states): the cache holds a positive rate or none, and a
\* GetCurrentRate that returned gave an error or a positive rate
C21_PositiveRatesOnly ==
    /\ rateCacheRate >= 0
    /\ \A k \in Returned : callResult[k].err \/ callResult[k].rate > 0

\* C21: the rate is stored and returned only if it is positive; an amount <= 0
\* from the rate API makes GetCurrentRate return an error and store nothing,
\* and no GetCurrentRate returns a rate that is not positive
C21_OnlyPositiveRates == [](C21_PositiveRatesOnly) /\ [][C21_NonPositiveAnswerStep]_vars

\* the rate API answered an amount that is not positive to an empty cache, the
\* caller returned an error, and a later caller got a positive rate
C21_Witness ==
    /\ Len(answers) = 2
    /\ answers[1].ok /\ answers[1].amount <= 0
    /\ answers[2].ok /\ answers[2].amount > 0
    /\ \E j, k \in Returned : callResult[j].err /\ callResult[k].rate = answers[2].amount

\* C22 (the failed call): a request that fails makes GetCurrentRate return an
\* error and leaves rate and timestamp of the cache as they were, a cache
\* that is empty or older than its ttl
C22_FailedCallStep ==
    \A k \in Fetching :
        GetCurrentRateProvider(k, FALSE, 0) =>
            /\ callResult'[k] = [rate |-> 0, err |-> TRUE]
            /\ UNCHANGED <<rateCacheRate, rateCacheTimestamp>>
            /\ rateCacheRate = 0 \/ now - rateCacheTimestamp > ttl

\* C22 (the next call): while the cache is empty or expired no GetCurrentRate
\* returns from the cache: a caller goes for the lock, and with the lock it
\* asks the provider
C22_ExpiredStep ==
    (isExpired /\ callPc' # callPc) =>
        \A k \in Callers :
            /\ GetCurrentRate(k) => callPc'[k] = "waiting"
            /\ GetCurrentRateLocked(k) => callPc'[k] = "fetching"

\* C22: a failed provider call does not poison the cache: GetCurrentRate
\* returns an error, rate and timestamp stay, the expired rate is not returned
\* in place of the error, and the next GetCurrentRate asks the provider again
C22_FailureKeepsCache == [][C22_FailedCallStep /\ C22_ExpiredStep]_vars

\* the cache holds an expired rate, a request has failed and its caller has
\* returned the error, and the next caller is with the provider
C22_Witness ==
    /\ rateCacheRate > 0 /\ isExpired
    /\ Len(answers) = 1 /\ ~answers[1].ok
    /\ \E k \in Returned : callResult[k] = [rate |-> 0, err |-> TRUE]
    /\ Fetching # {}

\* C23 (the served rate): a GetCurrentRate that returns without a call of the
\* provider returns the rate of a cache with now - timestamp < ttl
C23_ServedStep ==
    \A k \in Callers :
        (callPc[k] \in {"called", "waiting"} /\ callPc'[k] = "done") =>
            /\ rateCacheRate # 0
            /\ now - rateCacheTimestamp < ttl
            /\ callResult'[k] = [rate |-> rateCacheRate, err |-> FALSE]

\* C23 (a long ttl): with a ttl longer than the run, nobody is with the
\* provider once a rate is stored
C23_LongTTLOneFetch ==
    (ttl > MaxTime /\ rateCacheRate # 0) => Fetching = {}

\* C23: a cached rate is returned without a provider call only while
\* now - timestamp < ttl: with ttl 0 every GetCurrentRate asks the provider,
\* one at the instant of the store too, and with a ttl longer than the run no
\* GetCurrentRate after the first stored rate asks the provider
C23_ServedOnlyWhileFresh == [](C23_LongTTLOneFetch) /\ [][C23_ServedStep]_vars

\* C24 (the drop): when GetCurrentRate returns an error to the transformer,
\* the handler returns without a broadcast and the loop goes to its commit
C24_RateFailureStep ==
    (consumer.pc = "rate" /\ consumer'.pc # "rate" /\ callResult[ConsumerCaller].err) =>
        /\ broadcast' = broadcast
        /\ published' = published
        /\ hubPc' = hubPc /\ send' = send
        /\ consumer'.pc = "commit"

\* C24 (the loop): the consumer asks for a rate only for a value with the
\* marker; at its commit the loop goes on whether the commit goes through or
\* not, and then it takes the next message
C24_LoopGoesOn ==
    /\ consumer.pc = "rate" =>
          CallsGetCurrentRate(consumer.msg.topic, consumer.msg.value)
    /\ (consumer.pc = "commit" /\ ~panicked) =>
          \A ok \in BOOLEAN : ENABLED CommitMessages(ok)
    /\ (consumer.pc = "fetch" /\ ~panicked) =>
          \A m \in BusMessages : ENABLED FetchMessage(m[1], m[2])

\* C24: a message with the marker whose rate cannot be had is dropped: nothing
\* is broadcast for it, its unconverted values neither, and the consumer goes
\* on with the messages that follow
C24_DroppedWithoutRate == [](C24_LoopGoesOn) /\ [][C24_RateFailureStep]_vars

\* the first message carried the marker and the rate API failed: nothing was
\* broadcast for it; the second message was broadcast
C24_Witness ==
    /\ Len(committed) = 2
    /\ committed[1].topic = TopicUserMargin /\ committed[1].value.asset = "IDR"
    /\ Has(activeUsers, committed[1].value.cfx_user_id)
    /\ answers = <<[ok |-> FALSE, amount |-> 0]>>
    /\ committed[2].value.asset = "USDT"
    /\ published = 1
    /\ \E k \in Publications(1) : send[1][k].data.asset = "USDT"

\* the fields the transformer is to multiply, and the marker of a message
C25_MarginMonetary ==
    {"total_position_value", "margin_balance", "order_margin", "maintenance_margin",
     "unrealized_pnl", "available_margin", "wallet_balance", "withdrawable_margin"}

C25_PositionMonetary ==
    {"value", "maintenance_margin", "realised_pnl", "unrealised_pnl", "order_margin"}

C25_Monetary(topic) ==
    IF topic = TopicUserMargin THEN C25_MarginMonetary ELSE C25_PositionMonetary

C25_Marker(topic, value) ==
    \/ topic = TopicUserMargin /\ value.asset = "IDR"
    \/ topic = TopicUserPosition /\ Len(value.symbol) >= 8
          /\ SubSeq(value.symbol, Len(value.symbol) - 7, Len(value.symbol))
                = <<"I", "D", "R", "-", "P", "E", "R", "P">>

\* C25 (the step): the payload the consumer hands to hub.Broadcast for its
\* message is, with the marker, the value with every monetary field
\* multiplied by the rate GetCurrentRate returned, the rate of the cache,
\* and every other field as it was; without the marker it is the value
C25_BroadcastStep ==
    (published' # published /\ consumer.pc \in {"handle", "rate"}) =>
        LET d == broadcast'[Len(broadcast')].Data
            v == consumer.msg.value
            topic == consumer.msg.topic
            rate == callResult[ConsumerCaller]
        IN  /\ d.cfx_user_id = v.cfx_user_id /\ d.asset = v.asset /\ d.symbol = v.symbol
            /\ DOMAIN d.fields = DOMAIN v.fields
            /\ IF C25_Marker(topic, v)
               THEN /\ consumer.pc = "rate" /\ ~rate.err
                    /\ rate.rate = rateCacheRate /\ rate.rate > 0
                    /\ \A f \in DOMAIN v.fields :
                          d.fields[f] = IF f \in C25_Monetary(topic)
                                        THEN v.fields[f] * rate.rate ELSE v.fields[f]
               ELSE /\ consumer.pc = "handle"
                    /\ d.fields = v.fields

\* C25: the transformer converts if and only if the marker is there (margin:
\* asset is IDR; position: symbol ends with IDR-PERP): with it every monetary
\* field of the published payload is the input field times the cached rate
\* and every other field is unchanged; without it the payload is the input
C25_ConvertsIffMarker == [][C25_BroadcastStep]_vars

\* the client holds a converted margin publication: the balance is the input
\* times the rate, the margin ratio is the input
C25_Witness ==
    \E k \in Publications(1) :
        /\ send[1][k].data.asset = "IDR"
        /\ rateCacheRate = MaxRate
        /\ send[1][k].data.fields["margin_balance"] = MaxAmount * MaxRate
        /\ send[1][k].data.fields["margin_ratio"] = MaxAmount

\* a message of a topic the gateway does not know, or whose value does not
\* decode
C26_Unusable(msg) ==
    msg.topic \notin {TopicUserMargin, TopicUserPosition} \/ ~msg.value.json

\* C26 (the skip): the handler of an unusable message returns without a
\* broadcast and without a call of the currency service, and the loop goes to
\* the commit of that message
C26_SkipStep ==
    (consumer.pc = "handle" /\ consumer' # consumer /\ C26_Unusable(consumer.msg)) =>
        /\ UNCHANGED <<broadcast, published, hubPc, send, callPc>>
        /\ consumer' = [pc |-> "commit", msg |-> consumer.msg]

\* C26 (the commit): the loop leaves its commit for the next fetch, and the
\* message is committed if the commit went through, an unusable one as any
\* other
C26_CommitStep ==
    (consumer.pc = "commit" /\ consumer' # consumer) =>
        /\ consumer' = AtFetch
        /\ committed' \in {committed, Append(committed, consumer.msg)}

\* C26 (the loop): the handler of an unusable message returns, a message at
\* the commit can be committed, and after a message the loop can fetch
C26_NothingHoldsTheLoop ==
    /\ (consumer.pc = "commit" /\ ~panicked) => ENABLED CommitMessages(TRUE)
    /\ (consumer.pc = "handle" /\ ~panicked /\ C26_Unusable(consumer.msg)) =>
          ENABLED HandleMessageCall
    /\ (consumer.pc = "fetch" /\ fetched > 0 /\ ~panicked) =>
          \E m \in BusMessages : ENABLED FetchMessage(m[1], m[2])

\* C26: a message that does not decode, or of an unknown topic, is skipped
\* without a broadcast and still committed, and the loop goes on to the next
\* message
C26_UnusableSkippedAndCommitted ==
    [](C26_NothingHoldsTheLoop) /\ [][C26_SkipStep /\ C26_CommitStep]_vars

\* an unusable message was committed with nothing broadcast for it, and the
\* message after it reached the client
C26_Witness ==
    /\ Len(committed) = 2
    /\ C26_Unusable(committed[1])
    /\ ~C26_Unusable(committed[2])
    /\ published = 1
    /\ \E k \in Publications(1) :
          send[1][k].data = [committed[2].value EXCEPT !.seq = 1]

\* C27: with a limit above 0 the count of Hub.userConnections never exceeds
\* the limit for any ajaib id, and no count is ever negative (a stored count
\* is at least 1: unregisterClient deletes the entry at 0)
C27_CountWithinLimit ==
    /\ \A p \in DOMAIN userConnections : userConnections[p] >= 1
    /\ \A p \in AjaibIDs \cup {EmptyString} : GetUserConnectionCount(p) >= 0
    /\ maxConnectionsPerUser > 0 =>
          \A p \in AjaibIDs \cup {EmptyString} :
              GetUserConnectionCount(p) <= maxConnectionsPerUser

\* the limit has bitten: a user's count is at the limit and registerClient
\* has refused a further client of that user
C27_Witness ==
    /\ maxConnectionsPerUser > 0
    /\ \E c \in refused :
          GetUserConnectionCount(ajaibID[c]) = maxConnectionsPerUser

\* the channel names of the grammar user:<public_id>:<suffix>, public_id of 1
\* to 10 digits, suffix margin or position
WellFormedChannel(ch) ==
    \E n \in 1..10 : \E suffix \in {<<"m", "a", "r", "g", "i", "n">>,
                                     <<"p", "o", "s", "i", "t", "i", "o", "n">>} :
        /\ Len(ch) = 5 + n + 1 + Len(suffix)
        /\ SubSeq(ch, 1, 5) = <<"u", "s", "e", "r", ":">>
        /\ \A i \in 6..(5 + n) : ch[i] \in {"0", "1", "2", "3", "4", "5", "6", "7", "8", "9"}
        /\ ch[5 + n + 1] = ":"
        /\ SubSeq(ch, 5 + n + 2, Len(ch)) = suffix

\* C28 (the step): the subscribe of a malformed channel name is answered with
\* the error 4001 (on the queue if it has room) and changes nothing of the
\* Hub, the client and activeUsers
C28_MalformedSubscribeStep ==
    framesRead' # framesRead =>
    \A c \in Live : \A ch \in ChannelInputs : \A id \in MsgIDs :
        (/\ ch # EmptyString
         /\ ~WellFormedChannel(ch)
         /\ ReadPump(c, [json |-> TRUE, type |-> "subscribe", id |-> id, channel |-> ch])) =>
            /\ UNCHANGED <<hubClients, userConnections, channels, subscriptions, activeUsers>>
            /\ Len(send[c]) < sendBuffer =>
                  send'[c] = Append(send[c], NewErrorMessage(id, CodeChannelNotFound))
            /\ Len(send[c]) >= sendBuffer => send'[c] = send[c]

\* C28: every subscribe whose channel name is malformed (wrong prefix, wrong
\* number of segments, an ajaib id that is not 1 to 10 digits, a suffix other
\* than margin and position) is rejected with the error 4001 and changes
\* nothing
C28_MalformedSubscribeRejected == [][C28_MalformedSubscribeStep]_vars

\* C29 helper: the components ParseChannel returned spell its argument, the
\* identifier is 1 to 10 decimal digits and the suffix is margin or position
C29_ExactComponents ==
    /\ parsed.channel = PrefixUser \o parsed.info.AjaibID \o <<":">> \o parsed.info.ChannelSub
    /\ Len(parsed.info.AjaibID) \in 1..10
    /\ \A k \in 1..Len(parsed.info.AjaibID) : parsed.info.AjaibID[k] \in Digits
    /\ parsed.info.ChannelSub \in {ChannelMarginSuffix, ChannelPositionSuffix}

\* C29: ParseChannel accepts exactly the strings user:<public_id>:<suffix>
\* with public_id of 1 to 10 decimal digits and suffix margin or position,
\* and returns those components; every other string is rejected
C29_ParserAcceptsExactlyTheGrammar ==
    parsed.done =>
        /\ (parsed.info.err = "") <=> WellFormedChannel(parsed.channel)
        /\ parsed.info.err = "" => C29_ExactComponents
        /\ parsed.info.err # "" =>
               parsed.info.AjaibID = EmptyString /\ parsed.info.ChannelSub = EmptyString

\* C29 witness: a ten-digit identifier was parsed and accepted
C29_Witness ==
    /\ parsed.done
    /\ parsed.info.err = ""
    /\ Len(parsed.info.AjaibID) = 10

\* C30 helper: the frame is answered with the error code when the queue has
\* room, and the Hub, the subscriptions and the tracker stay as they were
C30_Rejected(c, id, code) ==
    /\ UNCHANGED <<hubClients, userConnections, channels, subscriptions, activeUsers>>
    /\ Len(send[c]) < sendBuffer => send'[c] = Append(send[c], NewErrorMessage(id, code))
    /\ Len(send[c]) >= sendBuffer => send'[c] = send[c]

\* C30 helper: one frame read by a client, a subscribe to a channel it has or
\* an unsubscribe from a channel it has not
C30_RepeatedStep ==
    framesRead' # framesRead =>
    \A c \in Live : \A ch \in ChannelInputs \ {EmptyString} : \A id \in MsgIDs :
        /\ (/\ ch \in subscriptions[c]
            /\ ReadPump(c, [json |-> TRUE, type |-> "subscribe", id |-> id, channel |-> ch])) =>
               C30_Rejected(c, id, CodeAlreadySubscribed)
        /\ (/\ ch \notin subscriptions[c]
            /\ ReadPump(c, [json |-> TRUE, type |-> "unsubscribe", id |-> id, channel |-> ch])) =>
               C30_Rejected(c, id, CodeNotSubscribed)

\* C30: a subscribe to a channel already in the client's subscription set is
\* rejected with 4002 and an unsubscribe from a channel not in it with 4003,
\* and neither changes the Hub, the subscription set or the tracker
C30_RepeatedSubscribeAndStrayUnsubscribe == [][C30_RepeatedStep]_vars

\* C30 witness: a subscribed client holds the 4002 answer to its second
\* subscribe in its queue
C30_Witness ==
    \E c \in Live :
        /\ subscriptions[c] # {}
        /\ \E k \in 1..Len(send[c]) :
              send[c][k].type = "error" /\ send[c][k].code = CodeAlreadySubscribed

\* C31: with a ping_interval that is not strictly smaller than pong_timeout
\* the service does not start: no upgrade is accepted and no client is made
C31_NoSessionWithBadPingConfiguration ==
    pingInterval >= pingTimeout => \A c \in Clients : pc[c] = "none"

\* C34 helper: a client reads a text frame that is not JSON
C34_GarbageStep ==
    framesRead' # framesRead =>
    \A c \in Live :
        ReadPump(c, [json |-> FALSE, type |-> "", id |-> "", channel |-> EmptyString]) =>
            /\ readPump'[c] = "exited"
            /\ c \notin hubClients'

\* C34: a text frame that is not parseable JSON ends the read pump and
\* starts the cleanup of the client, as a read error does
C34_GarbageFrameEndsReadPump == [][C34_GarbageStep]_vars

\* C40 helper: a frame read by a client changes the Hub's channels, the
\* client's subscriptions or the tracker
C40_ChangeStep ==
    (/\ framesRead' # framesRead
     /\ <<channels, subscriptions, activeUsers>>' # <<channels, subscriptions, activeUsers>>) =>
    \E c \in Live : \E id \in MsgIDs : \E ch \in ChannelInputs :
        /\ \/ ReadPump(c, [json |-> TRUE, type |-> "subscribe", id |-> id, channel |-> ch])
           \/ ReadPump(c, [json |-> TRUE, type |-> "unsubscribe", id |-> id, channel |-> ch])
        /\ Len(send'[c]) = Len(send[c]) + 1
        /\ LET reply == send'[c][Len(send'[c])] IN
              /\ reply.type \in {"subscribed", "unsubscribed"}
              /\ reply.id = id

\* C40: a subscribe or unsubscribe that changes the state of the Hub has its
\* reply, carrying the id of the command, put in the client's queue
C40_ChangeHasItsReply == [][C40_ChangeStep]_vars

\* C38 helper: a send to client.send of a client whose queue the Hub has
\* closed, by a reply of the handler, by broadcastToChannel or by the greeting.
\* Such a send is the only enqueue that sets panicked, which is looked at first.
C38_EnqueueStep ==
    (panicked' /\ ~panicked) =>
    \A c \in Clients :
        sendClosed[c] =>
            /\ ~(framesRead' # framesRead /\ \E msg \in Commands : ReadPump(c, msg))
            /\ ~broadcastSend(c)
            /\ ~handleWebSocketRegister(c)

\* C38: no frame is enqueued to a client's queue after the Hub has closed it,
\* whatever the order of broadcasts, replies, the greeting, Close and
\* unregister
C38_NoEnqueueOnClosedQueue == [][C38_EnqueueStep]_vars

\* C37: after the unsubscribed reply for a channel was enqueued to a client,
\* no publication of that channel is enqueued to it unless a subscribed reply
\* for the channel was enqueued in between
C37_NoPublicationAfterUnsubscribed ==
    \A k \in 1..Len(send[1]) : \A m \in k + 1..Len(send[1]) :
        (/\ send[1][k].type = "unsubscribed"
         /\ send[1][m].type = "publication"
         /\ send[1][m].channel = send[1][k].channel) =>
            \E j \in k + 1..m - 1 :
                send[1][j].type = "subscribed" /\ send[1][j].channel = send[1][k].channel

\* C36: for every accepted upgrade the connected frame is enqueued before
\* a pump of the client runs and before any reply or publication is enqueued
\* to it; it is the head of the queue until the WritePump takes it, and the
\* first frame the WritePump writes to the socket
C36_ConnectedFrameFirst ==
    \A c \in Clients :
        /\ pc[c] \in {"none", "upgraded", "registered"} =>
              /\ send[c] = << >>
              /\ readPump[c] = "none" /\ writePump[c] = "none"
        /\ pc[c] = "greeted" =>
              /\ send[c] = <<NewConnectedMessage(c, ajaibID[c])>>
              /\ readPump[c] = "none" /\ writePump[c] = "none"
        /\ (writePump[c] = "running" /\ firstWritten[c] = "") =>
              /\ send[c] # << >>
              /\ Head(send[c]) = NewConnectedMessage(c, ajaibID[c])
        /\ firstWritten[c] \in {"", "connected"}

\* C36 witness: a client has been written its greeting and holds a reply or a
\* publication behind it
C36_Witness ==
    \E c \in Clients :
        /\ firstWritten[c] = "connected"
        /\ send[c] # << >>
        /\ Head(send[c]).type \in {"publication", "subscribed", "pong"}

\* C33 helper: the step is a text frame read by the client
C33_FrameRead(c) ==
    /\ framesRead' # framesRead
    /\ \E msg \in Commands : ReadPump(c, msg)

\* C33 helper: the steps of a client's socket. The read deadline moves only
\* when the pumps start or a frame or pong is read, to pingTimeout from then;
\* nothing is read once it has passed; and, with pingInterval < pingTimeout,
\* a ReadPump that ends with the socket whole and open has a ping without a
\* pong that was written before this moment
C33_Step ==
    \A c \in Clients :
        /\ readDeadline'[c] # readDeadline[c] =>
              /\ readDeadline'[c] = now + pingTimeout
              /\ \/ pc[c] = "upgraded"
                 \/ C33_FrameRead(c)
                 \/ pinged[c] # 0 /\ pinged'[c] = 0
        /\ (C33_FrameRead(c) \/ (pinged[c] # 0 /\ pinged'[c] = 0)) =>
              now < readDeadline[c]
        /\ (/\ readPump[c] = "running" /\ readPump'[c] = "exited"
            /\ ~peerGone[c] /\ ~connClosed[c]) =>
              /\ now >= readDeadline[c]
              /\ c \notin hubClients' /\ connClosed'[c]
              /\ pingInterval < pingTimeout => (pinged[c] # 0 /\ pinged[c] < now)

C39_FailedClientIsTornDown ==
    \A c \in Clients :
        (pc[c] = "started" /\ ReadFails(c))
            ~> (c \notin hubClients /\ readPump[c] = "exited" /\ writePump[c] = "exited")

\* C39 witness: a client whose socket broke while its queue was full is out of
\* the Hub, with both pumps ended and the queue still full
C39_Witness ==
    \E c \in Clients :
        /\ pc[c] = "started" /\ peerGone[c]
        /\ c \notin hubClients /\ readPump[c] = "exited" /\ writePump[c] = "exited"
        /\ Len(send[c]) = sendBuffer

\* C32: when the shutdown sequence has completed, no upgrade is accepted any
\* more, the consumer loop has stopped, and every client that was started is
\* out of the Hub with both pumps ended
C32_ShutdownClosesEverySession ==
    mainPc = "done" =>
        /\ ~serving
        /\ consumer.pc = "stopped"
        /\ \A c \in Clients :
              pc[c] = "started" =>
                  /\ c \notin hubClients
                  /\ readPump[c] = "exited" /\ writePump[c] = "exited"

\* C35: when the cancelled consumer loop has returned, every message its
\* handler was called with before the cancellation has its offset committed
C35_HandedMessagesCommittedAtExit ==
    consumer.pc = "stopped" =>
        \A k \in 1..cancelled.handed :
            \E i \in 1..Len(committed) : committed[i].offset = k

====
